---- MODULE Spec2Model ----
(***************************************************************************)
(* One route of csv2json: the file detector (event, poll, hybrid), the     *)
(* per-file pipeline of Processor.processFile, the sinks and the archiver. *)
(* The detector and the pipeline run in one goroutine (the callback is     *)
(* called synchronously), so a single program counter pc follows it; the   *)
(* producer of the input files and the supervisor's Stop are the           *)
(* environment.                                                            *)
(***************************************************************************)
EXTENDS Naturals, Sequences, FiniteSets

\* ---------------------------------------------------------------- bounds

\* Number of distinct basenames the producer uses.
NumFiles == 2

\* Largest file size (in write units) the producer reaches.
MaxSize == 1

\* Largest max-files-per-cycle setting explored (0 = unlimited).
MaxK == 1

\* --------------------------------------------------------- names, config

\* The basenames, in the order os.ReadDir returns them (sorted by filename).
AllNames ==
  << <<"a", ".", "c", "s", "v">>,
     <<"a", ".", "t", "x", "t">>,
     <<"b", ".", "c", "s", "v">>,
     <<"c">> >>

Names == 1..NumFiles

Basename(n) == AllNames[n]

WatchModeEvent == "event"
WatchModePoll == "poll"
WatchModeHybrid == "hybrid"
WatchModes == {WatchModeEvent, WatchModePoll, WatchModeHybrid}

OutputTypes == {"file", "queue", "both"}

CategoryProcessed == "processed"
CategoryIgnored == "ignored"
CategoryFailed == "failed"
Categories == {CategoryProcessed, CategoryIgnored, CategoryFailed}

\* The route configurations explored.  watchMode, maxFilesPerPoll (0 =
\* unlimited) and outputType are the settings of that name; suffix is
\* FileSuffixFilter (empty = all); pattern is FilenamePattern, a regular
\* expression of the family ^<literal> given by its literal (empty = the
\* default `.*`), and compiled tells whether FilenamePattern is a compiled
\* expression or the nil pointer; source is "env" for the configuration
\* config.Load builds and "routes" for one converted from the routes file.
NoSuffix == << >>
CsvSuffix == << <<".", "c", "s", "v">> >>
AnyName == << >>

\* The routes of the routes file explored, as LoadRoutes leaves them:
\* compiledPattern is set only when filenamePattern is given, and
\* compiledSuffixList only when suffixFilter is given.
RoutesFile ==
  { [name |-> "defaults", filenamePattern |-> "", compiledPattern |-> AnyName,
     suffixFilter |-> "", compiledSuffixList |-> NoSuffix,
     maxFilesPerPoll |-> 0, outputType |-> "file"],
    [name |-> "a", filenamePattern |-> "^a", compiledPattern |-> <<"a">>,
     suffixFilter |-> ".csv", compiledSuffixList |-> CsvSuffix,
     maxFilesPerPoll |-> 0, outputType |-> "queue"] }

\* input.watchMode of a route of the routes file (default event).
InputWatchMode(route) == WatchModeEvent

\* Route.ToLegacyConfig: FilenamePattern is r.Input.compiledPattern, nil
\* when the route gave no filenamePattern.
ToLegacyConfig(route) ==
  [watchMode |-> InputWatchMode(route),
   maxFilesPerPoll |-> route.maxFilesPerPoll,
   outputType |-> route.outputType,
   suffix |-> route.compiledSuffixList,
   pattern |-> route.compiledPattern,
   compiled |-> route.filenamePattern # "",
   source |-> "routes"]

\* config.Load: FILENAME_PATTERN (default `.*`) is always compiled.
Load(settings) ==
  [watchMode |-> settings.watchMode,
   maxFilesPerPoll |-> settings.maxFilesPerPoll,
   outputType |-> settings.outputType,
   suffix |-> settings.suffix,
   pattern |-> settings.pattern,
   compiled |-> TRUE,
   source |-> "env"]

Settings ==
  { [watchMode |-> WatchModeEvent, maxFilesPerPoll |-> MaxK,
     outputType |-> "file", suffix |-> CsvSuffix, pattern |-> AnyName],
    [watchMode |-> WatchModePoll, maxFilesPerPoll |-> 0,
     outputType |-> "queue", suffix |-> NoSuffix, pattern |-> <<"a", ".", "c">>],
    [watchMode |-> WatchModePoll, maxFilesPerPoll |-> MaxK,
     outputType |-> "both", suffix |-> NoSuffix, pattern |-> AnyName],
    [watchMode |-> WatchModeHybrid, maxFilesPerPoll |-> 0,
     outputType |-> "file", suffix |-> NoSuffix, pattern |-> AnyName],
    [watchMode |-> WatchModeHybrid, maxFilesPerPoll |-> MaxK,
     outputType |-> "both", suffix |-> CsvSuffix, pattern |-> AnyName] }

Routes ==
  {Load(settings) : settings \in Settings} \cup
  {ToLegacyConfig(route) : route \in RoutesFile}

VARIABLES
  cfg,             \* the route configuration (immutable after load)
  fs,              \* input directory: name -> [kind, size]
  events,          \* Create/Write events pending on watcher.Events
  watching,        \* watcher.Add succeeded
  running,         \* m.running
  stopClosed,      \* m.stopChan is closed
  processedFiles,  \* m.processedFiles (the registry)
  pc,              \* position of the detector goroutine
  cur,             \* the candidate being checked or processed (0 = none)
  size1,           \* info1.Size() of isFileReady
  via,             \* "event" or "poll": the path the candidate came from
  entries,         \* entries of the current scan still to visit
  processedCount,  \* processedCount of the current scan
  call,            \* the processFile call in progress
  where,           \* name -> archive categories holding the emitted file
  stuck,           \* names whose emitted file is still at its input path
  outDir,          \* output folder: the JSON file names written
  queue,           \* identifiers of the messages published
  emitted,         \* name -> number of callback invocations
  sent,            \* name -> number of SendOrdered calls on the route's sink
  sendErr,         \* name -> the sink that failed SendOrdered ("" = none)
  initial,         \* the initial scan: the regular files then present, and
                   \* whether the listing succeeded
  gap,             \* files created between the call of Start and its listing
  cycle,           \* bookkeeping of the current scan cycle
  sup,             \* the supervisor (main goroutine) of multi-route mode
  rt,              \* multi-route mode: route -> its processor and goroutine
  arc,             \* caller -> the frame of its Archiver.Archive call
  disk,            \* the shared archive directory, the originals, the clock
  conv,            \* one parsed file on its way through the sinks
  boot             \* one start of the service, from its settings to a detector

\* One route in detail.
routeVars ==
  << cfg, fs, events, watching, running, stopClosed, processedFiles, pc, cur,
     size1, via, entries, processedCount, call, where, stuck, outDir, queue,
     emitted, sent, sendErr, initial, gap, cycle >>

\* The one route and the supervisor's routes are idle while an Archive call
\* or a conversion is followed step by step, and the other way round.
archVars == << arc, disk >>

supRest == << routeVars, archVars, conv, boot >>

\* What lies beyond the one route: the supervisor and its routes, the
\* Archive calls, the conversion, the start of the service.
beyond == << sup, rt, archVars, conv, boot >>

vars == << routeVars, beyond >>

Absent == [kind |-> "absent", size |-> 0]

\* No processFile call in progress.
NoCall ==
  [file |-> 0, steps |-> << >>, sendErr |-> "", fileWritten |-> FALSE,
   published |-> FALSE, category |-> "", reason |-> ""]

\* No scan cycle in progress: left holds the regular files the last cycle
\* listed and ended without registering or finding not ready.
NoCycle == [open |-> FALSE, listed |-> {}, notReady |-> {}, emits |-> 0, left |-> {}]

\* The bookkeeping of a cycle after a step that leaves `rest` to visit.
CycleStep(listed, notReady, emits, registry, rest) ==
  IF rest = << >>
  THEN [NoCycle EXCEPT !.left = listed \ (registry \cup notReady)]
  ELSE [open |-> TRUE, listed |-> listed, notReady |-> notReady,
        emits |-> emits, left |-> {}]

IsFile(n) == fs[n].kind = "file"

\* --------------------------------------------------------- pure helpers

\* strings.HasSuffix
HasSuffix(s, suffix) ==
  /\ Len(suffix) <= Len(s)
  /\ SubSeq(s, Len(s) - Len(suffix) + 1, Len(s)) = suffix

\* regexp.MatchString for the patterns ^<literal>
MatchString(pattern, s) ==
  /\ Len(pattern) <= Len(s)
  /\ SubSeq(s, 1, Len(pattern)) = pattern

\* The suffix check of ShouldProcessFile lets the name through.
SuffixMatch(filename) ==
  Len(cfg.suffix) > 0 =>
    \E i \in 1..Len(cfg.suffix) : HasSuffix(filename, cfg.suffix[i])

\* ShouldProcessFile reaches c.FilenamePattern.MatchString with a nil
\* FilenamePattern: a nil pointer dereference, which nothing recovers.
NilPattern(filename) == SuffixMatch(filename) /\ ~cfg.compiled

ShouldProcessFile(filename) ==
  /\ Len(cfg.suffix) > 0 =>
       \E i \in 1..Len(cfg.suffix) : HasSuffix(filename, cfg.suffix[i])
  /\ MatchString(cfg.pattern, filename)

\* Index of the last "." of a name (0 if none): filepath.Ext starts there.
LastDot(s) ==
  LET dots == {i \in 1..Len(s) : s[i] = "."}
  IN IF dots = {} THEN 0 ELSE CHOOSE i \in dots : \A j \in dots : j <= i

\* FileHandler.SendOrdered: base + ".json"
OutputFilename(identifier) ==
  LET d == LastDot(identifier)
      base == IF d = 0 THEN identifier ELSE SubSeq(identifier, 1, d - 1)
  IN base \o <<".", "j", "s", "o", "n">>

\* os.ReadDir: the entries in sorted order, each with its type.
RECURSIVE Listing(_)
Listing(n) ==
  IF n > NumFiles THEN << >>
  ELSE IF fs[n].kind = "absent" THEN Listing(n + 1)
  ELSE << [name |-> n, isDir |-> fs[n].kind = "dir"] >> \o Listing(n + 1)

RECURSIVE Advance_NoLimit(_, _)
Advance_NoLimit(es, count) ==
  IF es = << >> THEN << >>
  ELSE IF Head(es).isDir THEN Advance_NoLimit(Tail(es), count)
  ELSE IF Head(es).name \in processedFiles THEN Advance_NoLimit(Tail(es), count)
  ELSE IF fs[Head(es).name].kind = "absent" THEN Advance_NoLimit(Tail(es), count)
  ELSE es

\* The part of a scan loop that neither sleeps nor calls back: the entries
\* left once directories and registered names are skipped, or none when the
\* limit is reached at a file entry.  An entry that is gone by the time it
\* is visited fails the first stat of isFileReady and is skipped at once.
RECURSIVE Advance(_, _)
Advance(es, count) ==
  IF es = << >> THEN << >>
  ELSE IF Head(es).isDir THEN Advance(Tail(es), count)
  ELSE IF cfg.maxFilesPerPoll > 0 /\ count >= cfg.maxFilesPerPoll THEN << >>
  ELSE IF Head(es).name \in processedFiles THEN Advance(Tail(es), count)
  ELSE IF fs[Head(es).name].kind = "absent" THEN Advance(Tail(es), count)
  ELSE es

\* ---------------------------------------------------------------- Init

RouteInit ==
  /\ cfg \in Routes
  /\ fs = [n \in Names |-> Absent]
  /\ events = {}
  /\ watching = FALSE
  /\ running = FALSE
  /\ stopClosed = FALSE
  /\ processedFiles = {}
  /\ pc = "new"
  /\ cur = 0
  /\ size1 = 0
  /\ via = ""
  /\ entries = << >>
  /\ processedCount = 0
  /\ call = NoCall
  /\ where = [n \in Names |-> {}]
  /\ stuck = {}
  /\ outDir = {}
  /\ queue = [n \in Names |-> 0]
  /\ emitted = [n \in Names |-> 0]
  /\ sent = [n \in Names |-> 0]
  /\ sendErr = [n \in Names |-> ""]
  /\ initial = [files |-> {}, listed |-> FALSE]
  /\ gap = {}
  /\ cycle = NoCycle

\* No supervisor: the route is followed on its own.
SupIdle ==
  /\ sup = [pc |-> "off", i |-> 0]
  /\ rt = << >>

\* No Archive call is followed step by step.
ArchIdle ==
  /\ arc = << >>
  /\ disk = << >>

\* No conversion is followed.
ConvIdle == conv = << >>

\* No start of the service is followed.
BootIdle == boot = << >>

BeyondIdle == SupIdle /\ ArchIdle /\ ConvIdle /\ BootIdle

Init == RouteInit /\ BeyondIdle

detectorVars ==
  << watching, running, stopClosed, processedFiles, pc, cur, size1, via,
     entries, processedCount, call, where, stuck, outDir, queue, emitted,
     sent, sendErr, initial, cycle >>

\* ------------------------------------------------------- the environment

\* The model follows one detector lifetime: the folder is of no interest
\* once Start has returned.
Alive == pc \notin {"stopped", "returned", "panicked"}

\* A Create or Write on the watched folder queues an event when the watch is
\* in place; the notification primitive may also miss it.
Notify(n) ==
  IF watching
  THEN \E delivered \in BOOLEAN :
         events' = IF delivered THEN events \cup {n} ELSE events
  ELSE events' = events

\* Create with a registry that drops a basename when a new file arrives
\* under it.
Create_Unregister(n) ==
  /\ Alive
  /\ fs[n].kind = "absent"
  /\ fs' = [fs EXCEPT ![n] = [kind |-> "file", size |-> 0]]
  /\ gap' = IF pc = "scanExisting" THEN gap \cup {n} ELSE gap
  /\ Notify(n)
  /\ processedFiles' = processedFiles \ {n}
  /\ UNCHANGED <<cfg, watching, running, stopClosed, pc, cur, size1, via,
                 entries, processedCount, call, where, stuck, outDir, queue,
                 emitted, sent, sendErr, initial, cycle>>
  /\ UNCHANGED beyond

\* The producer creates a file in the input folder.
Create(n) ==
  /\ Alive
  /\ fs[n].kind = "absent"
  /\ fs' = [fs EXCEPT ![n] = [kind |-> "file", size |-> 0]]
  /\ gap' = IF pc = "scanExisting" THEN gap \cup {n} ELSE gap
  /\ Notify(n)
  /\ UNCHANGED <<cfg, detectorVars>>
  /\ UNCHANGED beyond

\* The producer appends to a file it created.
Write(n) ==
  /\ Alive
  /\ IsFile(n)
  /\ fs[n].size < MaxSize
  /\ fs' = [fs EXCEPT ![n].size = @ + 1]
  /\ Notify(n)
  /\ UNCHANGED <<cfg, detectorVars, gap>>
  /\ UNCHANGED beyond

\* A subdirectory appears in the input folder.
Mkdir(n) ==
  /\ Alive
  /\ fs[n].kind = "absent"
  /\ fs' = [fs EXCEPT ![n] = [kind |-> "dir", size |-> 0]]
  /\ Notify(n)
  /\ UNCHANGED <<cfg, detectorVars, gap>>
  /\ UNCHANGED beyond

\* The producer takes back the file the readiness check is waiting on; no
\* Create or Write event comes of it.
Remove(n) ==
  /\ pc = "sleep"
  /\ cur = n
  /\ IsFile(n)
  /\ fs' = [fs EXCEPT ![n] = Absent]
  /\ UNCHANGED <<cfg, events, detectorVars, gap>>
  /\ UNCHANGED beyond

\* Processor.Stop -> monitor.Stop: closes the stop channel once.
Stop ==
  /\ running
  /\ stopClosed' = TRUE
  /\ running' = FALSE
  /\ UNCHANGED <<cfg, fs, events, watching, processedFiles, pc, cur, size1,
                 via, entries, processedCount, call, where, stuck, outDir,
                 queue, emitted, sent, sendErr, initial, gap, cycle>>
  /\ UNCHANGED beyond

\* ----------------------------------------------------------- the detector

\* Start, up to the initial scan.
Start ==
  /\ pc = "new"
  /\ running' = TRUE
  /\ pc' = "scanExisting"
  /\ UNCHANGED <<cfg, fs, events, watching, stopClosed, processedFiles, cur,
                 size1, via, entries, processedCount, call, where, stuck,
                 outDir, queue, emitted, sent, sendErr, initial, gap, cycle>>
  /\ UNCHANGED beyond

scanExisting_NoRegister ==
  /\ pc = "scanExisting"
  /\ initial' = [files |-> {n \in Names : IsFile(n)}, listed |-> TRUE]
  /\ pc' = IF cfg.watchMode = WatchModePoll THEN "select" ELSE "addWatch"
  /\ UNCHANGED <<cfg, fs, events, watching, running, stopClosed, cur, size1,
                 via, entries, processedCount, call, where, stuck, outDir,
                 queue, emitted, sent, sendErr, gap, cycle, processedFiles>>
  /\ UNCHANGED beyond

\* scanExisting: every regular file listed is registered without a callback;
\* when the listing fails a warning is logged and nothing is registered.
scanExisting ==
  /\ pc = "scanExisting"
  /\ \E ok \in BOOLEAN :
       /\ processedFiles' =
            IF ok THEN processedFiles \cup {n \in Names : IsFile(n)}
            ELSE processedFiles
       /\ initial' = [files |-> {n \in Names : IsFile(n)}, listed |-> ok]
  /\ pc' = IF cfg.watchMode = WatchModePoll THEN "select" ELSE "addWatch"
  /\ UNCHANGED <<cfg, fs, events, watching, running, stopClosed, cur, size1,
                 via, entries, processedCount, call, where, stuck, outDir,
                 queue, emitted, sent, sendErr, gap, cycle>>
  /\ UNCHANGED beyond

\* watcher.Add(m.watchFolder): on failure Start returns the error.
WatcherAdd ==
  /\ pc = "addWatch"
  /\ \E ok \in BOOLEAN :
       /\ watching' = ok
       /\ pc' = IF ok THEN "select" ELSE "returned"
  /\ UNCHANGED <<cfg, fs, events, running, stopClosed, processedFiles, cur,
                 size1, via, entries, processedCount, call, where, stuck,
                 outDir, queue, emitted, sent, sendErr, initial, gap, cycle>>
  /\ UNCHANGED beyond

\* case <-m.stopChan: the watcher (if any) is closed and Start returns.
StopReceived ==
  /\ pc = "select"
  /\ stopClosed
  /\ pc' = "stopped"
  /\ watching' = FALSE
  /\ events' = {}
  /\ UNCHANGED <<cfg, fs, running, stopClosed, processedFiles, cur, size1,
                 via, entries, processedCount, call, where, stuck, outDir,
                 queue, emitted, sent, sendErr, initial, gap, cycle>>
  /\ UNCHANGED beyond

handleFileEvent_NoRegistryCheck(n) ==
  /\ pc = "select"
  /\ cfg.watchMode \in {WatchModeEvent, WatchModeHybrid}
  /\ n \in events
  /\ events' = events \ {n}
  /\ IF IsFile(n)
     THEN /\ pc' = "sleep"
          /\ cur' = n
          /\ size1' = fs[n].size
          /\ via' = "event"
     ELSE UNCHANGED <<pc, cur, size1, via>>
  /\ UNCHANGED <<cfg, fs, watching, running, stopClosed, processedFiles,
                 entries, processedCount, call, where, stuck, outDir, queue,
                 emitted, sent, sendErr, initial, gap, cycle>>
  /\ UNCHANGED beyond

\* handleFileEvent up to the sleep of isFileReady: the event is dropped when
\* the path is no regular file or the basename is registered.
handleFileEvent(n) ==
  /\ pc = "select"
  /\ cfg.watchMode \in {WatchModeEvent, WatchModeHybrid}
  /\ n \in events
  /\ events' = events \ {n}
  /\ IF IsFile(n) /\ n \notin processedFiles
     THEN /\ pc' = "sleep"
          /\ cur' = n
          /\ size1' = fs[n].size
          /\ via' = "event"
     ELSE UNCHANGED <<pc, cur, size1, via>>
  /\ UNCHANGED <<cfg, fs, watching, running, stopClosed, processedFiles,
                 entries, processedCount, call, where, stuck, outDir, queue,
                 emitted, sent, sendErr, initial, gap, cycle>>
  /\ UNCHANGED beyond

Visit_NoBackup(es, count) ==
  LET rest == IF cfg.watchMode = WatchModeHybrid THEN << >> ELSE Advance(es, count)
  IN IF rest = << >>
     THEN /\ pc' = "select"
          /\ entries' = << >>
          /\ cur' = 0
          /\ size1' = 0
          /\ via' = ""
     ELSE /\ pc' = "sleep"
          /\ entries' = rest
          /\ cur' = Head(rest).name
          /\ size1' = fs[Head(rest).name].size
          /\ via' = "poll"

\* The scan loop from entries es on, up to the next sleep of isFileReady or
\* the end of the loop.
Visit(es, count) ==
  LET rest == Advance(es, count)
  IN IF rest = << >>
     THEN /\ pc' = "select"
          /\ entries' = << >>
          /\ cur' = 0
          /\ size1' = 0
          /\ via' = ""
     ELSE /\ pc' = "sleep"
          /\ entries' = rest
          /\ cur' = Head(rest).name
          /\ size1' = fs[Head(rest).name].size
          /\ via' = "poll"

\* case <-ticker.C: scan (PollingMonitor) / scanForNew (HybridMonitor); a
\* failed listing is logged and the cycle ends.
ScanCycle_OwnGoroutine(ok) ==
  /\ pc \in {"select", "filter", "validate", "parse", "send", "publish", "archive"}
  /\ cfg.watchMode \in {WatchModePoll, WatchModeHybrid}
  /\ ok
  /\ processedCount' = 0
  /\ Visit(Listing(1), 0)
  /\ cycle' = CycleStep({n \in Names : IsFile(n)}, {}, 0,
                        processedFiles, Advance(Listing(1), 0))
  /\ UNCHANGED <<cfg, fs, events, watching, running, stopClosed,
                 processedFiles, call, where, stuck, outDir, queue, emitted,
                 sent, sendErr, initial, gap>>
  /\ UNCHANGED beyond

ScanCycle(ok) ==
  /\ pc = "select"
  /\ cfg.watchMode \in {WatchModePoll, WatchModeHybrid}
  /\ IF ok
     THEN /\ processedCount' = 0
          /\ Visit(Listing(1), 0)
          /\ cycle' = CycleStep({n \in Names : IsFile(n)}, {}, 0,
                                 processedFiles, Advance(Listing(1), 0))
     ELSE UNCHANGED <<pc, cur, size1, via, entries, processedCount, cycle>>
  /\ UNCHANGED <<cfg, fs, events, watching, running, stopClosed,
                 processedFiles, call, where, stuck, outDir, queue, emitted,
                 sent, sendErr, initial, gap>>
  /\ UNCHANGED beyond

scan == \E ok \in BOOLEAN : ScanCycle(ok)

\* The candidate is dropped: back to the select loop (event path) or on with
\* the next entry (poll path).
Continue(count) ==
  IF via = "event"
  THEN /\ pc' = "select"
       /\ cur' = 0
       /\ size1' = 0
       /\ via' = ""
       /\ UNCHANGED entries
  ELSE Visit(Tail(entries), count)

\* isFileReady of a detector that counts the emissions of the event path
\* against max-files-per-cycle and drops the candidate at the limit.
isFileReady_EventsLimited ==
  /\ pc = "sleep"
  /\ IF /\ fs[cur].kind # "absent" /\ fs[cur].size = size1
        /\ ~(via = "event" /\ cfg.maxFilesPerPoll > 0
               /\ processedCount >= cfg.maxFilesPerPoll)
     THEN /\ pc' = "filter"
          /\ emitted' = [emitted EXCEPT ![cur] = @ + 1]
          /\ call' = [NoCall EXCEPT !.file = cur]
          /\ cycle' = IF via = "poll"
                      THEN [cycle EXCEPT !.emits = @ + 1]
                      ELSE cycle
          /\ UNCHANGED <<cur, size1, via, entries>>
     ELSE /\ Continue(processedCount)
          /\ cycle' = IF via = "poll"
                      THEN CycleStep(cycle.listed, cycle.notReady \cup {cur},
                                     cycle.emits, processedFiles,
                                     Advance(Tail(entries), processedCount))
                      ELSE cycle
          /\ UNCHANGED <<emitted, call>>
  /\ UNCHANGED <<cfg, fs, events, watching, running, stopClosed,
                 processedFiles, processedCount, where, stuck, outDir, queue,
                 sent, sendErr, initial, gap>>
  /\ UNCHANGED beyond

\* isFileReady after the sleep: the second stat; when it succeeds and the
\* size is unchanged the callback is invoked with the path.  What the path
\* holds by then is not looked at.
isFileReady ==
  /\ pc = "sleep"
  /\ IF fs[cur].kind # "absent" /\ fs[cur].size = size1
     THEN /\ pc' = "filter"
          /\ emitted' = [emitted EXCEPT ![cur] = @ + 1]
          /\ call' = [NoCall EXCEPT !.file = cur]
          /\ cycle' = IF via = "poll"
                      THEN [cycle EXCEPT !.emits = @ + 1]
                      ELSE cycle
          /\ UNCHANGED <<cur, size1, via, entries>>
     ELSE /\ Continue(processedCount)
          /\ cycle' = IF via = "poll"
                      THEN CycleStep(cycle.listed, cycle.notReady \cup {cur},
                                     cycle.emits, processedFiles,
                                     Advance(Tail(entries), processedCount))
                      ELSE cycle
          /\ UNCHANGED <<emitted, call>>
  /\ UNCHANGED <<cfg, fs, events, watching, running, stopClosed,
                 processedFiles, processedCount, where, stuck, outDir, queue,
                 sent, sendErr, initial, gap>>
  /\ UNCHANGED beyond

\* ------------------------------------------------- Processor.processFile

pipelineFrame ==
  << cfg, fs, events, watching, running, stopClosed, processedFiles, cur,
     size1, via, entries, processedCount, where, stuck, emitted, initial,
     gap, cycle >>

\* The step ends the pipeline with an Archive request.
ToArchive(step, category, reason) ==
  /\ pc' = "archive"
  /\ call' = [call EXCEPT !.steps = Append(@, step),
                          !.category = category, !.reason = reason]

\* if !p.config.ShouldProcessFile(filename) -> Archive(ignored, "")
Filter ==
  /\ pc = "filter"
  /\ IF NilPattern(Basename(cur))
     THEN /\ pc' = "panicked"
          /\ call' = [call EXCEPT !.steps = Append(@, "filter")]
     ELSE IF ShouldProcessFile(Basename(cur))
     THEN /\ pc' = "validate"
          /\ call' = [call EXCEPT !.steps = Append(@, "filter")]
     ELSE ToArchive("filter", CategoryIgnored, "")
  /\ UNCHANGED <<pipelineFrame, outDir, queue, sent, sendErr>>
  /\ UNCHANGED beyond

Validate_NoReturn ==
  /\ pc = "validate"
  /\ \E ok \in BOOLEAN :
       /\ pc' = "parse"
       /\ call' = [call EXCEPT !.steps = Append(@, "validate"),
                               !.reason = IF ok THEN "" ELSE "validate"]
  /\ UNCHANGED <<pipelineFrame, outDir, queue, sent, sendErr>>
  /\ UNCHANGED beyond

\* p.parser.Validate: the first 4 KiB hold the delimiter, or not.
Validate ==
  /\ pc = "validate"
  /\ \E ok \in BOOLEAN :
       IF ok
       THEN /\ pc' = "parse"
            /\ call' = [call EXCEPT !.steps = Append(@, "validate")]
       ELSE ToArchive("validate", CategoryFailed, "validate")
  /\ UNCHANGED <<pipelineFrame, outDir, queue, sent, sendErr>>
  /\ UNCHANGED beyond

\* p.parser.ParseWithOrder: rows (at least one), or an error.
Parse ==
  /\ pc = "parse"
  /\ \E ok \in BOOLEAN :
       IF ok
       THEN /\ pc' = "send"
            /\ call' = [call EXCEPT !.steps = Append(@, "parse")]
       ELSE ToArchive("parse", CategoryFailed, "parse")
  /\ UNCHANGED <<pipelineFrame, outDir, queue, sent, sendErr>>
  /\ UNCHANGED beyond

FileSendOrdered_IgnoreError ==
  /\ pc = "send"
  /\ cfg.outputType \in {"file", "both"}
  /\ sent' = [sent EXCEPT ![cur] = @ + 1]
  /\ \E ok \in BOOLEAN :
       /\ outDir' = IF ok THEN outDir \cup {OutputFilename(Basename(cur))}
                    ELSE outDir
       /\ sendErr' = IF ok THEN sendErr ELSE [sendErr EXCEPT ![cur] = "file"]
       /\ pc' = IF cfg.outputType = "both" THEN "publish" ELSE "archive"
       /\ call' = [call EXCEPT !.steps = @ \o <<"convert", "write">>,
                               !.fileWritten = ok,
                               !.sendErr = IF ok THEN "" ELSE "file",
                               !.category = IF cfg.outputType = "both" THEN ""
                                            ELSE CategoryProcessed]
  /\ UNCHANGED <<pipelineFrame, queue>>
  /\ UNCHANGED beyond

\* FileHandler.SendOrdered, directly or as the first half of
\* BothHandler.SendOrdered.
FileSendOrdered ==
  /\ pc = "send"
  /\ cfg.outputType \in {"file", "both"}
  /\ sent' = [sent EXCEPT ![cur] = @ + 1]
  /\ \E ok \in BOOLEAN :
       IF ok
       THEN /\ outDir' = outDir \cup {OutputFilename(Basename(cur))}
            /\ sendErr' = sendErr
            /\ IF cfg.outputType = "both"
               THEN /\ pc' = "publish"
                    /\ call' = [call EXCEPT !.steps = @ \o <<"convert", "write">>,
                                            !.fileWritten = TRUE]
               ELSE /\ pc' = "archive"
                    /\ call' = [call EXCEPT !.steps = @ \o <<"convert", "write">>,
                                            !.fileWritten = TRUE,
                                            !.category = CategoryProcessed]
       ELSE /\ outDir' = outDir
            /\ sendErr' = [sendErr EXCEPT ![cur] = "file"]
            /\ pc' = "archive"
            /\ call' = [call EXCEPT !.steps = @ \o <<"convert", "write">>,
                                    !.sendErr = "file",
                                    !.category = CategoryFailed,
                                    !.reason = "file"]
  /\ UNCHANGED <<pipelineFrame, queue>>
  /\ UNCHANGED beyond

\* QueueHandler.SendOrdered, directly or as the second half of
\* BothHandler.SendOrdered.
QueueSendOrdered ==
  /\ \/ pc = "send" /\ cfg.outputType = "queue"
     \/ pc = "publish"
  /\ sent' = IF pc = "send" THEN [sent EXCEPT ![cur] = @ + 1] ELSE sent
  /\ \E ok \in BOOLEAN :
       IF ok
       THEN /\ queue' = [queue EXCEPT ![cur] = @ + 1]
            /\ sendErr' = sendErr
            /\ pc' = "archive"
            /\ call' = [call EXCEPT !.steps = @ \o <<"convert", "publish">>,
                                    !.published = TRUE,
                                    !.category = CategoryProcessed]
       ELSE /\ queue' = queue
            /\ sendErr' = [sendErr EXCEPT ![cur] = "queue"]
            /\ pc' = "archive"
            /\ call' = [call EXCEPT !.steps = @ \o <<"convert", "publish">>,
                                    !.sendErr = "queue",
                                    !.category = CategoryFailed,
                                    !.reason = "queue"]
  /\ UNCHANGED <<pipelineFrame, outDir>>
  /\ UNCHANGED beyond

\* What Archive can come to: the move succeeds (rename, or copy and delete),
\* or MkdirAll fails, or rename and copy fail, or the copy succeeds and the
\* delete of the original fails.
ArchiveOutcomes == {"ok", "mkdir", "copy", "remove"}

\* Archive with a detector that marks the basename only when the callback
\* returned nil.
Archive_NoRegister ==
  /\ pc = "archive"
  /\ \E outcome \in ArchiveOutcomes :
       LET registered == IF outcome = "ok" THEN processedFiles \cup {cur}
                         ELSE processedFiles
       IN /\ where' = IF outcome \in {"ok", "remove"}
                      THEN [where EXCEPT ![cur] = @ \cup {call.category}]
                      ELSE where
          /\ fs' = IF outcome = "ok" THEN [fs EXCEPT ![cur] = Absent] ELSE fs
          /\ stuck' = IF outcome = "ok" THEN stuck ELSE stuck \cup {cur}
          /\ processedFiles' = registered
          /\ IF via = "poll"
             THEN /\ processedCount' = processedCount + 1
                  /\ Continue(processedCount + 1)
                  /\ cycle' = CycleStep(cycle.listed, cycle.notReady, cycle.emits,
                                         registered,
                                         Advance(Tail(entries), processedCount + 1))
             ELSE /\ Continue(processedCount)
                  /\ UNCHANGED <<processedCount, cycle>>
  /\ call' = NoCall
  /\ UNCHANGED <<cfg, events, watching, running, stopClosed, outDir, queue,
                 emitted, sent, sendErr, initial, gap>>
  /\ UNCHANGED beyond

\* Archiver.Archive, the return of processFile and the detector's marking
\* of the basename, which follows whatever the callback returned.
Archive ==
  /\ pc = "archive"
  /\ \E outcome \in ArchiveOutcomes :
       /\ where' = IF outcome \in {"ok", "remove"}
                   THEN [where EXCEPT ![cur] = @ \cup {call.category}]
                   ELSE where
       /\ fs' = IF outcome = "ok" THEN [fs EXCEPT ![cur] = Absent] ELSE fs
       /\ stuck' = IF outcome = "ok" THEN stuck ELSE stuck \cup {cur}
  /\ call' = NoCall
  /\ processedFiles' = processedFiles \cup {cur}
  /\ IF via = "poll"
     THEN /\ processedCount' = processedCount + 1
          /\ Continue(processedCount + 1)
          /\ cycle' = CycleStep(cycle.listed, cycle.notReady, cycle.emits,
                                 processedFiles \cup {cur},
                                 Advance(Tail(entries), processedCount + 1))
     ELSE /\ Continue(processedCount)
          /\ UNCHANGED <<processedCount, cycle>>
  /\ UNCHANGED <<cfg, events, watching, running, stopClosed, outDir, queue,
                 emitted, sent, sendErr, initial, gap>>
  /\ UNCHANGED beyond

\* ------------------------------------------------------------------ Next

Next ==
  \/ \E n \in Names : Create(n)
  \/ \E n \in Names : Write(n)
  \/ \E n \in Names : Mkdir(n)
  \/ Stop
  \/ Start
  \/ scanExisting
  \/ WatcherAdd
  \/ StopReceived
  \/ \E n \in Names : handleFileEvent(n)
  \/ scan
  \/ isFileReady
  \/ Filter
  \/ Validate
  \/ Parse
  \/ FileSendOrdered
  \/ QueueSendOrdered
  \/ Archive

Spec == Init /\ [][Next]_vars

\* The steps of the goroutine that runs Start: it is never blocked except in
\* the select, where a ticker tick (a scan), a delivered event or the closed
\* stop channel wakes it.
Goroutine ==
  \/ Start
  \/ scanExisting
  \/ WatcherAdd
  \/ StopReceived
  \/ \E n \in Names : handleFileEvent(n)
  \/ isFileReady
  \/ Filter
  \/ Validate
  \/ Parse
  \/ FileSendOrdered
  \/ QueueSendOrdered
  \/ Archive

\* Fair scheduling: the goroutine keeps running, and the ticker keeps
\* ticking with a listing that eventually succeeds.
FairSpec ==
  /\ Init
  /\ [][Next]_vars
  /\ WF_vars(Goroutine)
  /\ WF_vars(ScanCycle(TRUE))

\* The hybrid route with the dual sink and the limit per cycle, under fair
\* scheduling.
HybridInit == Init /\ cfg.watchMode = WatchModeHybrid /\ cfg.outputType = "both"

HybridFairSpec ==
  /\ HybridInit
  /\ [][Next]_vars
  /\ WF_vars(Goroutine)
  /\ WF_vars(ScanCycle(TRUE))

\* Stop: a select of Go takes one of its ready cases at random, so the closed
\* stop channel is taken in the end however many events and ticks are ready
\* with it.
StopFairSpec ==
  /\ Init
  /\ [][Next]_vars
  /\ WF_vars(Goroutine)
  /\ WF_vars(ScanCycle(TRUE))
  /\ SF_vars(StopReceived)

\* The route with a producer that also removes files, or replaces a file by
\* a directory of the same name, while the detector looks at them.
ReadyInit == Init /\ cfg.source = "env" /\ cfg.outputType # "both"

ReadyNext ==
  \/ Next
  \/ \E n \in Names : Remove(n)

ReadySpec == ReadyInit /\ [][ReadyNext]_vars

\* ------------------------------------------------------ multi-route mode

\* runMultiIngressMode with its routes, each route reduced to the stages of
\* its goroutine: waiting in the select, the readiness sleep, the steps of
\* processFile before the sink, the queue publish, the archive move.

\* Number of routes in the routes file.
NumRoutes == 2

\* Most files waiting in one route's input directory.
MaxPending == 1

RouteIds == 1..NumRoutes

\* Stages between the emission of a file and the return of its callback.
InFlight == {"process", "publish", "archive"}

\* The process has ended: log.Fatalf, an unrecovered panic, or main returned.
ProcessGone == sup.pc \in {"fatal", "crashed", "exited"}

NoProcessor(route) ==
  [route |-> route, made |-> FALSE, sink |-> "none", running |-> FALSE,
   told |-> FALSE, loop |-> "none", pending |-> 0, hang |-> FALSE,
   closedSend |-> FALSE, stopCalled |-> FALSE]

SupInit ==
  /\ RouteInit
  /\ cfg.source = "routes" /\ cfg.compiled
  /\ sup = [pc |-> "new", i |-> 1]
  /\ rt \in [RouteIds -> {NoProcessor(route) : route \in RoutesFile}]
  /\ ArchIdle /\ ConvIdle /\ BootIdle

\* The index after i in a loop over the routes that continues at `next`.
Step(i, now, next) ==
  IF i < NumRoutes THEN [pc |-> now, i |-> i + 1] ELSE [pc |-> next, i |-> 1]

\* processor.New for route sup.i: CreateHandler opens the broker of a
\* queue sink; on an error main calls log.Fatalf.
NewProcessor ==
  /\ sup.pc = "new"
  /\ \E ok \in BOOLEAN :
       /\ ~ok => rt[sup.i].route.outputType \in {"queue", "both"}
       /\ IF ok
          THEN /\ rt' = [rt EXCEPT ![sup.i].made = TRUE, ![sup.i].sink = "open"]
               /\ sup' = Step(sup.i, "new", "go")
          ELSE /\ rt' = rt
               /\ sup' = [sup EXCEPT !.pc = "fatal"]
  /\ UNCHANGED supRest

\* go func(p) { p.Start() } for route sup.i.
GoStart ==
  /\ sup.pc = "go"
  /\ rt' = [rt EXCEPT ![sup.i].loop = "start"]
  /\ sup' = Step(sup.i, "go", "wait")
  /\ UNCHANGED supRest

\* <-sigChan
Signal ==
  /\ sup.pc = "wait"
  /\ sup' = [pc |-> "stop", i |-> 1]
  /\ UNCHANGED <<supRest, rt>>

ProcessorStop_CloseOnly ==
  /\ sup.pc = "stop"
  /\ rt' = [rt EXCEPT ![sup.i].sink = "closed"]
  /\ sup' = Step(sup.i, "stop", "return")
  /\ UNCHANGED supRest

\* Processor.Stop for route sup.i: monitor.Stop (closes the stop channel if
\* m.running), then output.Close.
ProcessorStop ==
  /\ sup.pc = "stop"
  /\ rt' = [rt EXCEPT ![sup.i].stopCalled = TRUE,
                      ![sup.i].told = @ \/ rt[sup.i].running,
                      ![sup.i].running = FALSE,
                      ![sup.i].sink = "closed"]
  /\ sup' = Step(sup.i, "stop", "return")
  /\ UNCHANGED supRest

\* runMultiIngressMode returns and the process exits with its goroutines.
MainReturn ==
  /\ sup.pc = "return"
  /\ sup' = [sup EXCEPT !.pc = "exited"]
  /\ UNCHANGED <<supRest, rt>>

\* A file arrives in the input directory of route i.
Arrive(i) ==
  /\ ~ProcessGone
  /\ sup.pc # "new"
  /\ rt[i].pending < MaxPending
  /\ rt' = [rt EXCEPT ![i].pending = @ + 1]
  /\ UNCHANGED <<supRest, sup>>

\* monitor.Start of route i: sets m.running, scans, adds the watch; an
\* error is logged by the goroutine, which then ends.
RouteStart(i) ==
  /\ ~ProcessGone
  /\ rt[i].loop = "start"
  /\ \E ok \in BOOLEAN :
       rt' = [rt EXCEPT ![i].running = TRUE,
                        ![i].loop = IF ok THEN "select" ELSE "failed"]
  /\ UNCHANGED <<supRest, sup>>

\* The select of route i takes an event or a tick for a waiting file.
RouteDetect(i) ==
  /\ ~ProcessGone
  /\ rt[i].loop = "select"
  /\ rt[i].pending > 0
  /\ rt' = [rt EXCEPT ![i].loop = "sleep"]
  /\ UNCHANGED <<supRest, sup>>

\* The select of a route whose Stop closes the stop channel whatever the
\* running flag says.
RouteStopReceived_Unconditional(i) ==
  /\ ~ProcessGone
  /\ rt[i].loop = "select"
  /\ rt[i].stopCalled
  /\ rt' = [rt EXCEPT ![i].loop = "stopped"]
  /\ UNCHANGED <<supRest, sup>>

\* The select of route i takes the closed stop channel.
RouteStopReceived(i) ==
  /\ ~ProcessGone
  /\ rt[i].loop = "select"
  /\ rt[i].told
  /\ rt' = [rt EXCEPT ![i].loop = "stopped"]
  /\ UNCHANGED <<supRest, sup>>

\* isFileReady of route i returns true and the callback is called.
RouteReady(i) ==
  /\ ~ProcessGone
  /\ rt[i].loop = "sleep"
  /\ rt' = [rt EXCEPT ![i].loop = "process"]
  /\ UNCHANGED <<supRest, sup>>

\* processFile of route i up to the sink: the filter dereferences a nil
\* FilenamePattern (the process crashes); validation or parsing may fail;
\* otherwise a queue sink is next, whose broker may never answer.
RouteProcess(i) ==
  /\ ~ProcessGone
  /\ rt[i].loop = "process"
  /\ IF rt[i].route.filenamePattern = ""
     THEN /\ sup' = [sup EXCEPT !.pc = "crashed"]
          /\ rt' = rt
     ELSE /\ sup' = sup
          /\ \E ok \in BOOLEAN, hang \in BOOLEAN :
               rt' = [rt EXCEPT
                        ![i].loop =
                           IF ok /\ rt[i].route.outputType \in {"queue", "both"}
                           THEN "publish" ELSE "archive",
                        ![i].hang = ok /\ hang]
  /\ UNCHANGED supRest

RoutePublish_SharedLock(i) ==
  /\ ~ProcessGone
  /\ rt[i].loop = "publish"
  /\ \A j \in RouteIds \ {i} : rt[j].loop # "publish"
  /\ ~rt[i].hang \/ rt[i].sink = "closed"
  /\ rt' = [rt EXCEPT ![i].loop = "archive",
                      ![i].hang = FALSE,
                      ![i].closedSend = @ \/ rt[i].sink = "closed"]
  /\ UNCHANGED <<supRest, sup>>

\* channel.Publish of route i returns: with an error at once when the
\* channel was closed, otherwise when the broker answers.
RoutePublish(i) ==
  /\ ~ProcessGone
  /\ rt[i].loop = "publish"
  /\ ~rt[i].hang \/ rt[i].sink = "closed"
  /\ rt' = [rt EXCEPT ![i].loop = "archive",
                      ![i].hang = FALSE,
                      ![i].closedSend = @ \/ rt[i].sink = "closed"]
  /\ UNCHANGED <<supRest, sup>>

\* Archive of route i and the return of the callback to the loop.
RouteArchive(i) ==
  /\ ~ProcessGone
  /\ rt[i].loop = "archive"
  /\ rt' = [rt EXCEPT ![i].loop = "select", ![i].pending = @ - 1]
  /\ UNCHANGED <<supRest, sup>>

\* The goroutine of route i.
RouteGoroutine(i) ==
  \/ RouteStart(i)
  \/ RouteDetect(i)
  \/ RouteStopReceived(i)
  \/ RouteReady(i)
  \/ RouteProcess(i)
  \/ RoutePublish(i)
  \/ RouteArchive(i)

SupNext ==
  \/ NewProcessor
  \/ GoStart
  \/ Signal
  \/ ProcessorStop
  \/ MainReturn
  \/ \E i \in RouteIds : Arrive(i)
  \/ \E i \in RouteIds : RouteStart(i)
  \/ \E i \in RouteIds : RouteDetect(i)
  \/ \E i \in RouteIds : RouteStopReceived(i)
  \/ \E i \in RouteIds : RouteReady(i)
  \/ \E i \in RouteIds : RouteProcess(i)
  \/ \E i \in RouteIds : RoutePublish(i)
  \/ \E i \in RouteIds : RouteArchive(i)

SupSpec == SupInit /\ [][SupNext]_vars

\* Every route's goroutine is scheduled, and so is the main goroutine up to
\* its wait for the signal.
SupFairSpec ==
  /\ SupInit
  /\ [][SupNext]_vars
  /\ WF_vars(NewProcessor \/ GoStart)
  /\ \A i \in RouteIds : WF_vars(RouteGoroutine(i))

\* ------------------------------------------------------ Archiver.Archive
\* Callers (routes whose archive paths name the same directory, or one route
\* with one file after another) archive a file of the same basename into the
\* same category directory.  Each system call of Archive is one step; the
\* copy of the fallback is taken as one step.

NumCallers == 2
MaxTick == 1

Callers == 1 .. NumCallers

\* What a path holds: nothing, the content of caller i's original (i), an
\* older archived file, or a file that is not a whole copy of anything.
Gone == 0
Old == NumCallers + 1
Partial == NumCallers + 2

\* An archive name is base[_stamp][_counter].ext: stamp 0 is "no timestamp",
\* stamp t + 1 the second t; counter 0 is "no counter".
ArchNames == (0 .. MaxTick + 1) \X (0 .. NumCallers)

archRest == << routeVars, sup, rt, conv, boot >>

\* warned: the sidecar could not be written (the "Warning" of Archive).
NoFrame ==
  [pc |-> "idle", name |-> << 0, 0 >>, counter |-> 1, errorMsg |-> "",
   warned |-> FALSE]

\* time.Now().Format("20060102_150405") when addTimestamp is set.
Timestamp == IF disk.addTimestamp THEN disk.now + 1 ELSE 0

\* The callers that are inside Archive.
Active == {j \in Callers : arc[j].pc \notin {"idle", "done", "error"}}

ArchiveInit ==
  /\ RouteInit
  /\ cfg.source = "routes" /\ cfg.compiled
  /\ SupIdle /\ ConvIdle /\ BootIdle
  /\ arc = [i \in Callers |-> NoFrame]
  /\ \E addTimestamp \in BOOLEAN, old \in BOOLEAN :
       disk = [arch |-> [n \in ArchNames |->
                          IF old /\ n = << IF addTimestamp THEN 1 ELSE 0, 0 >>
                          THEN Old ELSE Gone],
               orig |-> [i \in Callers |-> i],
               side |-> {},
               now |-> 0,
               addTimestamp |-> addTimestamp,
               old |-> old,
               overlap |-> FALSE]

\* Archive is entered: MkdirAll, then the first archive name.
ArchiveCall(i) ==
  /\ arc[i].pc = "idle"
  /\ \E errorMsg \in {"", "reason"}, mkdir \in BOOLEAN :
       arc' = [arc EXCEPT ![i] =
                 IF mkdir
                 THEN [pc |-> "stat", name |-> << Timestamp, 0 >>,
                       counter |-> 1, errorMsg |-> errorMsg,
                       warned |-> FALSE]
                 ELSE [NoFrame EXCEPT !.pc = "error"]]
  /\ disk' = [disk EXCEPT !.overlap = @ \/ Active # {}]
  /\ UNCHANGED archRest

\* One turn of the duplicate loop: os.Stat of the archive path.
ArchiveStat(i) ==
  /\ arc[i].pc = "stat"
  /\ arc' = [arc EXCEPT ![i] =
               IF disk.arch[arc[i].name] = Gone
               THEN [@ EXCEPT !.pc = "rename"]
               ELSE [@ EXCEPT !.name = << Timestamp, arc[i].counter >>,
                              !.counter = @ + 1]]
  /\ UNCHANGED << disk, archRest >>

\* os.Rename replaces whatever the archive path holds by now.
ArchiveRename(i) ==
  /\ arc[i].pc = "rename"
  /\ \E ok \in BOOLEAN :
       IF ok
       THEN /\ disk' = [disk EXCEPT !.arch[arc[i].name] = disk.orig[i],
                                    !.orig[i] = Gone]
            /\ arc' = [arc EXCEPT ![i].pc = "sidecar"]
       ELSE /\ disk' = disk
            /\ arc' = [arc EXCEPT ![i].pc = "copy"]
  /\ UNCHANGED archRest

\* copyFile whose caller goes on to delete the original after a copy that
\* was cut short.
copyFile_ErrorIgnored(i) ==
  /\ arc[i].pc = "copy"
  /\ \E outcome \in {"nofile", "short", "ok"} :
       /\ disk' = [disk EXCEPT !.arch[arc[i].name] =
                     CASE outcome = "nofile" -> @
                       [] outcome = "short" -> Partial
                       [] outcome = "ok" -> disk.orig[i]]
       /\ arc' = [arc EXCEPT ![i].pc = IF outcome = "nofile" THEN "error" ELSE "remove"]
  /\ UNCHANGED archRest

\* copyFile: os.Open, os.Create (which truncates what the path holds),
\* io.Copy, Sync.
copyFile(i) ==
  /\ arc[i].pc = "copy"
  /\ \E outcome \in {"nofile", "short", "ok"} :
       /\ disk' = [disk EXCEPT !.arch[arc[i].name] =
                     CASE outcome = "nofile" -> @
                       [] outcome = "short" -> Partial
                       [] outcome = "ok" -> disk.orig[i]]
       /\ arc' = [arc EXCEPT ![i].pc = IF outcome = "ok" THEN "remove" ELSE "error"]
  /\ UNCHANGED archRest

\* os.Remove of the original after the copy.
ArchiveRemove(i) ==
  /\ arc[i].pc = "remove"
  /\ \E ok \in BOOLEAN :
       IF ok
       THEN /\ disk' = [disk EXCEPT !.orig[i] = Gone]
            /\ arc' = [arc EXCEPT ![i].pc = "sidecar"]
       ELSE /\ disk' = disk
            /\ arc' = [arc EXCEPT ![i].pc = "error"]
  /\ UNCHANGED archRest

\* The sidecar, when there is an error message, and the return of nil: a
\* failed sidecar write is only warned about.
logError(i) ==
  /\ arc[i].pc = "sidecar"
  /\ \E ok \in BOOLEAN :
       /\ disk' = [disk EXCEPT !.side =
                    IF arc[i].errorMsg # "" /\ ok
                    THEN @ \cup {arc[i].name} ELSE @]
       /\ arc' = [arc EXCEPT ![i].pc = "done",
                             ![i].warned = arc[i].errorMsg # "" /\ ~ok]
  /\ UNCHANGED archRest

\* The wall clock reaches the next second.
Tick ==
  /\ disk.now < MaxTick
  /\ disk' = [disk EXCEPT !.now = @ + 1]
  /\ UNCHANGED << arc, archRest >>

ArchiveStep(i) ==
  \/ ArchiveCall(i)
  \/ ArchiveStat(i)
  \/ ArchiveRename(i)
  \/ copyFile(i)
  \/ ArchiveRemove(i)
  \/ logError(i)

ArchiveNext ==
  \/ \E i \in Callers : ArchiveStep(i)
  \/ Tick

ArchiveSpec == ArchiveInit /\ [][ArchiveNext]_vars

\* ------------------------------------------------ conversion and sinks
\* One input file on its way through the parser, the converter, the file
\* sink and the queue sink.  A CSV file is the sequence of its records, a
\* record the sequence of its fields.  A JSON array is the sequence of its
\* objects, an object the sequence of its members << key, value >> in the
\* order of the text.

MaxCols == 3
MaxRows == 2

Columns == {"demoID", "DemoField1", "DemoField2"}

\* The texts of the data cells.
Cells == {"", "null"}

\* The keys made up for a file without header: col_0, col_1, ...
ColName == << "col_0", "col_1", "col_2", "col_3", "col_4" >>

\* encoding/json writes the keys of a map sorted by their bytes.
ByteOrder ==
  << "DemoField1", "DemoField2" >> \o SubSeq(ColName, 1, MaxCols) \o << "demoID" >>

\* The header rows of the input files (a name may repeat).
HeaderRows == UNION {[1 .. n -> Columns] : n \in 1 .. MaxCols}

DataRecords == UNION {[1 .. n -> Cells] : n \in 1 .. MaxCols}

DataRows == UNION {[1 .. m -> DataRecords] : m \in 0 .. MaxRows}

\* The files a parser may meet: empty, a header only, records of any arity.
Files(hasHeader) ==
  IF hasHeader
  THEN {<< >>} \cup {<< headers >> \o rows : headers \in HeaderRows, rows \in DataRows}
  ELSE DataRows

Usernames == {"", "user"}
Passwords == {"", "s3cret", "hunter2"}

convRest == << routeVars, sup, rt, archVars, boot >>

NoJSON == << >>

NoHandler == [queueType |-> ""]

NoResult == [err |-> "not parsed", Headers |-> << >>, Rows |-> << >>]

\* The last column of the header row that carries the key.
LastColumn(headers, key) ==
  CHOOSE j \in DOMAIN headers :
    /\ headers[j] = key
    /\ \A l \in DOMAIN headers : headers[l] = key => l <= j

\* The rows are built record by record; the first record of another arity
\* ends the parse with an error and without a result, and so does a file
\* without data rows.
ParseWithOrder_SkipBadRows(records, hasHeader) ==
  LET headers == IF records = << >> THEN << >>
                 ELSE IF hasHeader THEN records[1]
                 ELSE [j \in DOMAIN records[1] |-> ColName[j]]
      all == IF hasHeader /\ records # << >> THEN Tail(records) ELSE records
      data == SelectSeq(all, LAMBDA record : Len(record) = Len(headers))
  IN IF data = << >>
     THEN [err |-> "no data rows found in file", Headers |-> << >>, Rows |-> << >>]
     ELSE [err |-> "",
           Headers |-> headers,
           Rows |-> [r \in DOMAIN data |->
                      [Keys |-> headers,
                       Values |-> [key \in {headers[j] : j \in DOMAIN headers} |->
                                    data[r][LastColumn(headers, key)]]]]]

ParseWithOrder(records, hasHeader) ==
  LET headers == IF records = << >> THEN << >>
                 ELSE IF hasHeader THEN records[1]
                 ELSE [j \in DOMAIN records[1] |-> ColName[j]]
      data == IF hasHeader /\ records # << >> THEN Tail(records) ELSE records
  IN IF \E r \in DOMAIN records : Len(records[r]) # Len(headers)
     THEN [err |-> "row has another number of columns", Headers |-> << >>, Rows |-> << >>]
     ELSE IF data = << >>
     THEN [err |-> "no data rows found in file", Headers |-> << >>, Rows |-> << >>]
     ELSE [err |-> "",
           Headers |-> headers,
           Rows |-> [r \in DOMAIN data |->
                      [Keys |-> headers,
                       Values |-> [key \in {headers[j] : j \in DOMAIN headers} |->
                                    data[r][LastColumn(headers, key)]]]]]

\* json.Marshal of a Go string.
JSONString(text) == [type |-> "string", text |-> text]

ToJSONOrdered(result) ==
  [r \in DOMAIN result.Rows |->
    [j \in DOMAIN result.Rows[r].Keys |->
      << result.Rows[r].Keys[j],
         JSONString(result.Rows[r].Values[result.Rows[r].Keys[j]]) >>]]

\* json.Unmarshal into []map[string]string: the last member of a key wins,
\* the order of the members is not kept.
Unmarshal(json) ==
  [r \in DOMAIN json |->
    [key \in {json[r][j][1] : j \in DOMAIN json[r]} |->
      json[r][CHOOSE j \in DOMAIN json[r] :
                /\ json[r][j][1] = key
                /\ \A l \in DOMAIN json[r] : json[r][l][1] = key => l <= j][2].text]]

\* json.Marshal of []map[string]string.
Marshal(data) ==
  [r \in DOMAIN data |->
    LET keys == SelectSeq(ByteOrder, LAMBDA key : key \in DOMAIN data[r])
    IN [j \in DOMAIN keys |-> << keys[j], JSONString(data[r][keys[j]]) >>]]

\* The broker URI of the envelope, as the sequence of its parts.
BrokerURI_Plain(queueType, host, port, username, password) ==
  IF username # "" /\ password # ""
  THEN << queueType, "://", username, ":", password, "@", host, ":", port, "/" >>
  ELSE << queueType, "://", host, ":", port, "/" >>

BrokerURI(queueType, host, port, username, password) ==
  IF username # "" /\ password # ""
  THEN << queueType, "://", username, ":", "***", "@", host, ":", port, "/" >>
  ELSE << queueType, "://", host, ":", port, "/" >>

NewQueueHandler(queueType, host, port, queueName, username, password, logMessages) ==
  [queueType |-> queueType,
   queueName |-> queueName,
   logMessages |-> logMessages,
   includeEnvelope |-> TRUE,
   routeName |-> "",
   ingestionContract |-> "",
   sourceFilePath |-> "",
   brokerURI |-> BrokerURI(queueType, host, port, username, password),
   serviceVersion |-> "0.1.0"]

SetEnvelopeContext(h, routeName, ingestionContract, sourceFilePath, includeEnvelope) ==
  [h EXCEPT !.routeName = routeName,
            !.ingestionContract = ingestionContract,
            !.sourceFilePath = sourceFilePath,
            !.includeEnvelope = includeEnvelope]

\* Processor.SetEnvelopeContext, called by main for a queue-enabled route:
\* the route's name and contract, and a source path, given once when the
\* route is set up.
ProcessorSetEnvelopeContext(h, routeName, ingestionContract, includeEnvelope) ==
  SetEnvelopeContext(h, routeName, ingestionContract, "input/products.csv",
                     includeEnvelope)

\* Envelope and legacy shape marshal the same Data []map[string]string.
buildMessageEnvelope(h, data, identifier) ==
  IF ~h.includeEnvelope
  THEN [shape |-> "legacy", identifier |-> identifier, data |-> Marshal(data)]
  ELSE [shape |-> "envelope",
        meta |-> [ingestionContract |-> h.ingestionContract,
                  source |-> [type |-> "file",
                              name |-> identifier,
                              path |-> h.sourceFilePath,
                              queue |-> h.queueName,
                              broker |-> h.brokerURI,
                              route |-> h.routeName],
                  ingestion |-> [service |-> "csv2json",
                                 version |-> h.serviceVersion,
                                 timestamp |-> "2006-01-02T15:04:05Z"]],
        data |-> Marshal(data)]

\* The basenames of the files a route is given, and its input folder.
SourceNames == {"products.csv", "orders.csv"}

WatchFolder == "input"

\* filepath.Join of the watched folder and the name of a directory entry.
Join(dir, name) == dir \o "/" \o name

\* filepath.Base of a path in the watched folder.
Base(path) == CHOOSE name \in SourceNames : Join(WatchFolder, name) = path

\* A processor about to be built, and the one file it will be given.  In
\* "routes" mode main wires the envelope context after processor.New; in
\* "legacy" mode nothing does.
NewConv(mode, hasHeader, records, outputType, includeEnvelope, username, password, twin, logMessages) ==
  [pc |-> "new", mode |-> mode, hasHeader |-> hasHeader, records |-> records,
   outputType |-> outputType, includeEnvelope |-> includeEnvelope,
   username |-> username, password |-> password, twin |-> twin,
   logMessages |-> logMessages, name |-> "products.csv",
   handler |-> NoHandler, twinBroker |-> << >>,
   result |-> NoResult, file |-> NoJSON, message |-> NoJSON, log |-> << >>]

\* The files vary, the broker settings are fixed.
ConvInit ==
  /\ RouteInit
  /\ cfg.source = "routes" /\ cfg.compiled
  /\ SupIdle /\ ArchIdle /\ BootIdle
  /\ \E hasHeader \in BOOLEAN, includeEnvelope \in BOOLEAN,
        outputType \in OutputTypes :
       \E records \in Files(hasHeader) :
         conv = NewConv("routes", hasHeader, records, outputType,
                        includeEnvelope, "user", "s3cret", "hunter2", FALSE)

\* The broker settings, the mode and the name of the file vary, the content
\* of the file is fixed.
EnvelopeInit ==
  /\ RouteInit
  /\ cfg.source = "routes" /\ cfg.compiled
  /\ SupIdle /\ ArchIdle /\ BootIdle
  /\ \E mode \in {"legacy", "routes"}, includeEnvelope \in BOOLEAN,
        outputType \in OutputTypes, username \in Usernames,
        password \in Passwords, twin \in Passwords, logMessages \in BOOLEAN,
        name \in SourceNames :
       conv = [NewConv(mode, TRUE, << << "demoID", "DemoField1" >>, << "null", "" >> >>,
                       outputType, includeEnvelope, username, password, twin,
                       logMessages)
                 EXCEPT !.name = name]

\* processor.New: CreateHandler, and for a queue-enabled route of the routes
\* file the envelope context.  twinBroker is the broker URI of the handler
\* that is given the password `twin` and the same settings otherwise.
ConvNew ==
  /\ conv.pc = "new"
  /\ \E ok \in BOOLEAN :
       IF conv.outputType = "file"
       THEN conv' = [conv EXCEPT !.pc = "made"]
       ELSE IF ~ok
       THEN conv' = [conv EXCEPT !.pc = "fatal"]
       ELSE LET h == NewQueueHandler("rabbitmq", "localhost", "5672", "products_queue",
                                     conv.username, conv.password, conv.logMessages)
            IN conv' = [conv EXCEPT
                 !.pc = "made",
                 !.twinBroker = BrokerURI("rabbitmq", "localhost", "5672",
                                          conv.username, conv.twin),
                 !.handler = IF conv.mode = "routes"
                             THEN ProcessorSetEnvelopeContext(h, "products",
                                    "products.csv.v1", conv.includeEnvelope)
                             ELSE h]
  /\ UNCHANGED convRest

ConvParse ==
  /\ conv.pc = "made"
  /\ LET result == ParseWithOrder(conv.records, conv.hasHeader)
     IN conv' = [conv EXCEPT !.pc = IF result.err = "" THEN "parsed" ELSE "failed",
                             !.result = result]
  /\ UNCHANGED convRest

\* FileHandler.SendOrdered writes the bytes of ToJSONOrdered.
ConvFileSendOrdered ==
  /\ conv.pc = "parsed"
  /\ conv.outputType \in {"file", "both"}
  /\ conv' = [conv EXCEPT !.pc = "filed", !.file = ToJSONOrdered(conv.result)]
  /\ UNCHANGED convRest

\* QueueHandler.SendOrdered: ToJSONOrdered, json.Unmarshal of its bytes,
\* buildMessageEnvelope of the maps, sendToRabbitMQ (which logs the body
\* when asked to).  The identifier is the filename of processFile, the
\* base of the path the detector passed.
ConvQueueSendOrdered ==
  /\ \/ conv.pc = "parsed" /\ conv.outputType = "queue"
     \/ conv.pc = "filed" /\ conv.outputType = "both"
  /\ LET message == buildMessageEnvelope(conv.handler,
                                         Unmarshal(ToJSONOrdered(conv.result)),
                                         Base(Join(WatchFolder, conv.name)))
     IN conv' = [conv EXCEPT
          !.pc = "published",
          !.message = message,
          !.log = IF conv.handler.logMessages THEN Append(@, message) ELSE @]
  /\ UNCHANGED convRest

ConvNext ==
  \/ ConvNew
  \/ ConvParse
  \/ ConvFileSendOrdered
  \/ ConvQueueSendOrdered

ConvSpec == ConvInit /\ [][ConvNext]_vars

EnvelopeSpec == EnvelopeInit /\ [][ConvNext]_vars

\* ------------------------------------------------- the start of the service
\* main for one route: config.Load with validate (legacy mode) or LoadRoutes
\* with Route.ToLegacyConfig (routes mode), processor.New with CreateHandler
\* and NewMonitor, and the goroutine that runs Start.  The queue host and
\* port and the poll interval are left at their defaults, which validate
\* accepts.

\* The values of OUTPUT_TYPE (legacy mode) or output.type (routes mode), of
\* WATCH_MODE, and of QUEUE_NAME or output.destination that are explored.
OutputTypeValues == {"", "file", "queue", "both", "kafka"}
WatchModeValues == {"", WatchModeEvent, WatchModePoll, WatchModeHybrid, "inotify"}
QueueNames == {"", "orders"}
QueueTypeValues == {"", "rabbitmq", "kafka", "sqs", "azure-servicebus", "redis"}

bootRest == << routeVars, sup, rt, archVars, conv >>

NoConfig == [OutputType |-> "", QueueType |-> "", QueueName |-> "", WatchMode |-> ""]

\* getEnv: an unset or empty variable takes the default.
getEnv(value, defaultValue) == IF value # "" THEN value ELSE defaultValue

\* config.Load up to validate.
LoadEnv(outputType, queueType, queueName, watchMode) ==
  [OutputType |-> getEnv(outputType, "file"),
   QueueType |-> getEnv(queueType, "rabbitmq"),
   QueueName |-> getEnv(queueName, ""),
   WatchMode |-> getEnv(watchMode, WatchModeEvent)]

\* Config.validate: the error, or "" for nil.
validate(c) ==
  IF c.OutputType # "file" /\ c.OutputType # "queue"
  THEN "OUTPUT_TYPE must be 'file' or 'queue'"
  ELSE IF c.OutputType = "queue" /\ (c.QueueType = "" \/ c.QueueName = "")
  THEN "QUEUE_TYPE, QUEUE_HOST, and QUEUE_NAME must be set when OUTPUT_TYPE=queue"
  ELSE IF c.OutputType = "queue"
          /\ c.QueueType \notin {"rabbitmq", "kafka", "sqs", "azure-servicebus"}
  THEN "QUEUE_TYPE must be one of: rabbitmq, kafka, sqs, azure-servicebus"
  ELSE ""

\* LoadRoutes, the checks on the output of a route: the error, or "".
LoadRoutes(outputType, destination) ==
  IF outputType = "" \/ destination = ""
  THEN "missing required output configuration"
  ELSE ""

\* Route.ToLegacyConfig, the output part: the queue settings are set for
\* the type queue only.
OutputToLegacyConfig(outputType, destination, watchMode) ==
  [OutputType |-> outputType,
   QueueType |-> IF outputType = "queue" THEN "rabbitmq" ELSE "",
   QueueName |-> IF outputType = "queue" THEN destination ELSE "",
   WatchMode |-> watchMode]

\* NewQueueHandler with a switch that takes kafka to initRabbitMQ.
QueueHandlerError_KafkaDials(queueType, dial) ==
  IF queueType \in {"rabbitmq", "kafka"}
  THEN IF dial THEN "" ELSE "failed to connect to RabbitMQ"
  ELSE IF queueType \in {"sqs", "azure-servicebus"}
  THEN "not yet implemented"
  ELSE "unsupported queue type"

\* NewQueueHandler, its switch on the queue type: the error, or "" when
\* initRabbitMQ is reached and the broker answers.
QueueHandlerError(queueType, dial) ==
  IF queueType = "rabbitmq"
  THEN IF dial THEN "" ELSE "failed to connect to RabbitMQ"
  ELSE IF queueType \in {"kafka", "sqs", "azure-servicebus"}
  THEN "not yet implemented"
  ELSE "unsupported queue type"

\* NewQueueHandler, its switch on the queue type: the queue types for which
\* a connection is opened (initRabbitMQ, amqp.Dial).
Dials(queueType) == queueType = "rabbitmq"

\* CreateHandler: the handler built and the error.
CreateHandler(c, dial) ==
  CASE c.OutputType = "file" -> [handler |-> "file", err |-> ""]
    [] c.OutputType = "queue" ->
         IF QueueHandlerError(c.QueueType, dial) = ""
         THEN [handler |-> "queue", err |-> ""]
         ELSE [handler |-> "none", err |-> QueueHandlerError(c.QueueType, dial)]
    [] c.OutputType = "both" ->
         IF QueueHandlerError(c.QueueType, dial) = ""
         THEN [handler |-> "both", err |-> ""]
         ELSE [handler |-> "none", err |-> "failed to create queue handler"]
    [] OTHER -> [handler |-> "none", err |-> "invalid output type"]

\* NewMonitor: the monitor built and the error; newWatcher tells whether
\* fsnotify.NewWatcher succeeds.
NewMonitor(mode, newWatcher) ==
  CASE mode = WatchModeEvent ->
         [monitor |-> IF newWatcher THEN WatchModeEvent ELSE WatchModePoll, err |-> ""]
    [] mode = WatchModePoll -> [monitor |-> WatchModePoll, err |-> ""]
    [] mode = WatchModeHybrid ->
         [monitor |-> IF newWatcher THEN WatchModeHybrid ELSE WatchModePoll, err |-> ""]
    [] OTHER -> [monitor |-> "none", err |-> "unsupported watch mode"]

\* broker tells whether the broker answers amqp.Dial; watch follows the OS
\* watch of an event or hybrid route.
NewBoot(mode, outputType, queueType, queueName, watchMode, broker) ==
  [mode |-> mode, outputType |-> outputType, queueType |-> queueType,
   queueName |-> queueName,
   watchMode |-> watchMode, broker |-> broker, pc |-> "load", dialed |-> FALSE,
   config |-> NoConfig, handler |-> "none", monitor |-> "none", err |-> "",
   watch |-> "", pending |-> FALSE, detected |-> FALSE]

\* Legacy mode with the environment's values, or routes mode with one route
\* whose watch mode is InputWatchMode.
BootInit ==
  /\ RouteInit
  /\ cfg.source = "routes" /\ cfg.compiled
  /\ SupIdle /\ ArchIdle /\ ConvIdle
  /\ \E outputType \in OutputTypeValues, queueName \in QueueNames,
        broker \in BOOLEAN :
       \/ \E watchMode \in WatchModeValues :
            boot = NewBoot("legacy", outputType, "", queueName, watchMode, broker)
       \/ boot = NewBoot("routes", outputType, "", queueName, WatchModeEvent, broker)

\* log.Fatalf: the process exits.
Fatal(err) == [boot EXCEPT !.pc = "fatal", !.err = err]

\* config.Load with validate, or LoadRoutes and ToLegacyConfig.
BootLoad ==
  /\ boot.pc = "load"
  /\ boot' =
       IF boot.mode = "legacy"
       THEN LET c == LoadEnv(boot.outputType, boot.queueType, boot.queueName,
                             boot.watchMode)
            IN IF validate(c) # "" THEN Fatal(validate(c))
               ELSE [boot EXCEPT !.pc = "handler", !.config = c]
       ELSE IF LoadRoutes(boot.outputType, boot.queueName) # ""
            THEN Fatal(LoadRoutes(boot.outputType, boot.queueName))
            ELSE [boot EXCEPT !.pc = "handler",
                              !.config = OutputToLegacyConfig(boot.outputType,
                                            boot.queueName, boot.watchMode)]
  /\ UNCHANGED bootRest

\* processor.New, its call of output.CreateHandler.
BootCreateHandler ==
  /\ boot.pc = "handler"
  /\ LET made == CreateHandler(boot.config, boot.broker)
         dialed == boot.config.OutputType \in {"queue", "both"}
                     /\ Dials(boot.config.QueueType)
     IN boot' = IF made.err # ""
                THEN [Fatal(made.err) EXCEPT !.dialed = dialed]
                ELSE [boot EXCEPT !.pc = "monitor", !.handler = made.handler,
                                  !.dialed = dialed]
  /\ UNCHANGED bootRest

\* processor.New, its call of monitor.NewMonitor.
BootNewMonitor ==
  /\ boot.pc = "monitor"
  /\ \E newWatcher \in BOOLEAN :
       LET made == NewMonitor(boot.config.WatchMode, newWatcher)
       IN boot' = IF made.err # "" THEN Fatal(made.err)
                  ELSE [boot EXCEPT !.pc = "start", !.monitor = made.monitor,
                                    !.watch =
                                       IF boot.config.WatchMode = WatchModePoll THEN ""
                                       ELSE IF newWatcher THEN "created"
                                       ELSE "create failed"]
  /\ UNCHANGED bootRest

\* The goroutine that runs Start: an event or hybrid monitor adds its watch
\* and returns the error when that fails; legacy mode then calls log.Fatalf,
\* routes mode logs the error and the goroutine ends.
BootStart ==
  /\ boot.pc = "start"
  /\ \E add \in BOOLEAN :
       boot' = IF boot.monitor = WatchModePoll
               THEN [boot EXCEPT !.pc = "running"]
               ELSE IF add
               THEN [boot EXCEPT !.pc = "running", !.watch = "added"]
               ELSE [boot EXCEPT !.pc = IF boot.mode = "legacy" THEN "fatal"
                                        ELSE "ended",
                                 !.err = "Failed to add watch",
                                 !.watch = "add failed"]
  /\ UNCHANGED bootRest

\* A new file arrives in the input folder.
BootArrive ==
  /\ boot.pc \in {"start", "running", "ended"}
  /\ ~boot.pending /\ ~boot.detected
  /\ boot' = [boot EXCEPT !.pending = TRUE]
  /\ UNCHANGED bootRest

\* The running monitor takes the event or the tick and emits the file.
BootDetect ==
  /\ boot.pc = "running"
  /\ boot.pending
  /\ boot' = [boot EXCEPT !.pending = FALSE, !.detected = TRUE]
  /\ UNCHANGED bootRest

BootNext ==
  \/ BootLoad
  \/ BootCreateHandler
  \/ BootNewMonitor
  \/ BootStart
  \/ BootArrive
  \/ BootDetect

BootSpec == BootInit /\ [][BootNext]_vars

\* Legacy mode with the values of QUEUE_TYPE.
BrokerInit ==
  /\ RouteInit
  /\ cfg.source = "routes" /\ cfg.compiled
  /\ SupIdle /\ ArchIdle /\ ConvIdle
  /\ \E outputType \in OutputTypeValues, queueType \in QueueTypeValues,
        queueName \in QueueNames, broker \in BOOLEAN,
        watchMode \in {WatchModeEvent, WatchModePoll} :
       boot = NewBoot("legacy", outputType, queueType, queueName, watchMode, broker)

BrokerSpec == BrokerInit /\ [][BootNext]_vars

\* The goroutines are scheduled.
BootFairSpec ==
  /\ BootInit
  /\ [][BootNext]_vars
  /\ WF_vars(BootLoad \/ BootCreateHandler \/ BootNewMonitor \/ BootStart \/ BootDetect)

\* ---------------------------------------------------------------- claims

\* processFile has been called for n and has returned.
Returned(n) == emitted[n] > 0 /\ call.file # n

Range(seq) == {seq[i] : i \in 1..Len(seq)}

IsPrefix(p, q) == Len(p) <= Len(q) /\ SubSeq(q, 1, Len(p)) = p

\* The steps of a complete run of the pipeline up to Archive.
StepOrder ==
  <<"filter", "validate", "parse">> \o
  ( IF cfg.outputType = "file" THEN <<"convert", "write">>
    ELSE IF cfg.outputType = "queue" THEN <<"convert", "publish">>
    ELSE <<"convert", "write", "convert", "publish">> )

\* C1 (as claimed): once processFile has returned for a file, whatever the
\* steps did, the file is in exactly one archive directory and no longer in
\* the input directory.
C1_ExactlyOneOutcome ==
  \A n \in Names :
    Returned(n) => n \notin stuck /\ Cardinality(where[n]) = 1

\* A pending file under a basename never seen before. The basenames of a
\* run are unbounded; position n of the name order is taken over by a fresh
\* basename once the file of the previous one has been archived and that
\* name is not used again, so what the run recorded under the previous name
\* no longer bears on position n.
CreateFresh(n) ==
  /\ Alive
  /\ fs[n] = Absent
  /\ emitted[n] > 0
  /\ call.file # n
  /\ n \notin stuck
  /\ fs' = [fs EXCEPT ![n] = [kind |-> "file", size |-> 0]]
  /\ processedFiles' = processedFiles \ {n}
  /\ emitted' = [emitted EXCEPT ![n] = 0]
  /\ sent' = [sent EXCEPT ![n] = 0]
  /\ sendErr' = [sendErr EXCEPT ![n] = ""]
  /\ queue' = [queue EXCEPT ![n] = 0]
  /\ where' = [where EXCEPT ![n] = {}]
  /\ entries' = SelectSeq(entries, LAMBDA e : e.name # n)
  /\ cycle' = [cycle EXCEPT !.listed = @ \ {n}, !.notReady = @ \ {n}]
  /\ UNCHANGED <<cfg, events, watching, running, stopClosed, pc, cur, size1,
                 via, processedCount, call, stuck, outDir, initial, gap>>
  /\ UNCHANGED beyond

\* A polling route with a rate limit, in a directory that keeps receiving
\* files under fresh basenames.
ArrivalsInit == Init /\ cfg.watchMode = WatchModePoll /\ cfg.maxFilesPerPoll > 0

ArrivalsNext ==
  \/ \E n \in Names : Create(n)
  \/ \E n \in Names : CreateFresh(n)
  \/ \E n \in Names : Write(n)
  \/ \E n \in Names : Mkdir(n)
  \/ Stop
  \/ Start
  \/ scanExisting
  \/ StopReceived
  \/ scan
  \/ isFileReady
  \/ Filter
  \/ Validate
  \/ Parse
  \/ FileSendOrdered
  \/ QueueSendOrdered
  \/ Archive

ArrivalsSpec ==
  /\ ArrivalsInit
  /\ [][ArrivalsNext]_vars
  /\ WF_vars(Goroutine)
  /\ WF_vars(ScanCycle(TRUE))

\* C6 (as claimed): with max-files-per-cycle > 0, a file that a scan cycle
\* left pending is emitted by a later cycle, whatever files arrive in the
\* meantime, unless the detector is stopped.
C6_RateLimitLiveness ==
  \A n \in Names :
    [](n \in cycle.left /\ IsFile(n) =>
         <>(emitted[n] > 0 \/ ~IsFile(n) \/ ~Alive \/ stopClosed))

\* A regular file that arrived after Start was called: created while Start
\* had not yet listed the directory, or not there at the initial scan.
ArrivedAfterStart(n) ==
  /\ IsFile(n)
  /\ \/ n \in gap
     \/ pc \notin {"new", "scanExisting"} /\ n \notin initial.files

\* C2 (as claimed): under fair scheduling, in every watch mode, a regular
\* file that arrived after Start was called is eventually moved out of the
\* input directory into an archive directory, unless the detector is
\* stopped.
C2_NoLimbo ==
  \A n \in Names :
    [](ArrivedAfterStart(n) => <>(~IsFile(n) \/ ~Alive \/ stopClosed))

\* C3: over one detector lifetime the callback is invoked at most once for
\* any basename, in every mode and for every interleaving of events, poll
\* ticks and repeated events on the same file.
C3_AtMostOneEmission == \A n \in Names : emitted[n] <= 1

\* A file is back under a basename already emitted, and an event for it is
\* pending.
C3_Witness ==
  \E n \in Names :
    /\ Returned(n)
    /\ n \notin stuck
    /\ IsFile(n)
    /\ n \in events

C5_RateLimit ==
  /\ cfg.maxFilesPerPoll > 0 => cycle.emits <= cfg.maxFilesPerPoll
  /\ cfg.maxFilesPerPoll = 0 => cycle.left = {}

\* A cycle ended at the limit with files left over.
C5_Witness ==
  /\ cfg.maxFilesPerPoll > 0
  /\ ~cycle.open
  /\ cycle.left # {}
  /\ Cardinality({n \in Names : emitted[n] > 0}) >= cfg.maxFilesPerPoll

\* C7: in output mode both, the queue publish is attempted only after the
\* file write succeeded; a failed file write means no publish; after a
\* failed publish the JSON output file exists.
C7_DualSinkOrdering ==
  cfg.outputType = "both" =>
    /\ pc = "publish" =>
         call.fileWritten /\ OutputFilename(Basename(cur)) \in outDir
    /\ "publish" \in Range(call.steps) =>
         call.fileWritten /\ IsPrefix(call.steps, StepOrder)
    /\ \A n \in Names :
         /\ sendErr[n] = "file" =>
              /\ queue[n] = 0
              /\ call.file = n => pc = "archive" /\ "publish" \notin Range(call.steps)
         /\ sendErr[n] = "queue" => OutputFilename(Basename(n)) \in outDir

\* The publish failed after the file was written, and processFile returned.
C7_Witness ==
  /\ cfg.outputType = "both"
  /\ \E n \in Names : sendErr[n] = "queue" /\ Returned(n)

\* C8 (as claimed): once processFile has returned for a file whose send
\* returned an error, the file is archived to failed and nowhere else, and
\* the sink was invoked once for it.
C8_SinkFailureArchived ==
  \A n \in Names :
    sendErr[n] # "" /\ Returned(n) =>
      where[n] = {CategoryFailed} /\ sent[n] = 1

\* What holds of a failed send whether or not the move succeeds: Archive is
\* requested with category failed and the sink error as reason, the file
\* never reaches processed, and the sink is invoked once for it.
SinkFailureRouting ==
  \A n \in Names :
    sendErr[n] # "" =>
      /\ sent[n] = 1
      /\ where[n] \subseteq {CategoryFailed}
      /\ call.file = n =>
           /\ pc = "archive"
           /\ call.category = CategoryFailed
           /\ call.reason = sendErr[n]
      /\ Returned(n) /\ n \notin stuck => where[n] = {CategoryFailed}

\* C9: the steps of one file follow the order filter, validate, parse,
\* convert, send; the sink is invoked only after validate and parse
\* succeeded; a file is in processed only after its send succeeded; a file
\* that failed validation or parsing has no output file written and no
\* message published.
C9_PipelineOrder ==
  /\ IsPrefix(call.steps, StepOrder)
  /\ call.reason \in {"validate", "parse"} =>
       ~call.fileWritten /\ ~call.published /\ sent[call.file] = 0
  /\ \A n \in Names :
       /\ sent[n] <= 1
       /\ sent[n] > 0 /\ call.file = n =>
            IsPrefix(<<"filter", "validate", "parse", "convert">>, call.steps)
       /\ queue[n] > 0 \/ CategoryProcessed \in where[n] =>
            sent[n] = 1
       /\ CategoryProcessed \in where[n] => sendErr[n] = ""
       /\ call.file = n /\ call.category = CategoryProcessed =>
            sent[n] = 1 /\ sendErr[n] = "" /\ call.steps = StepOrder

\* A file went through every step and was moved to processed.
C9_Witness ==
  \E n \in Names :
    Returned(n) /\ where[n] = {CategoryProcessed} /\ n \notin stuck

\* C10 (as claimed): once processFile has returned for a detected file whose
\* name misses the suffix set or the filename pattern, the file is archived
\* to ignored and no sink was invoked for it.
C10_FilterMissArchived ==
  \A n \in Names :
    emitted[n] > 0 /\ ~ShouldProcessFile(Basename(n)) /\ Returned(n) =>
      where[n] = {CategoryIgnored} /\ sent[n] = 0

\* What holds of a filter miss whether or not the move succeeds: Archive is
\* requested with category ignored, and neither Validate nor the parser nor
\* a sink is invoked.
FilterMissRouting ==
  \A n \in Names :
    emitted[n] > 0 /\ ~ShouldProcessFile(Basename(n)) =>
      /\ sent[n] = 0
      /\ queue[n] = 0
      /\ sendErr[n] = ""
      /\ where[n] \subseteq {CategoryIgnored}
      /\ call.file = n =>
           /\ pc \in {"filter", "archive"}
           /\ IsPrefix(call.steps, <<"filter">>)
           /\ pc = "archive" => call.category = CategoryIgnored /\ call.reason = ""
      /\ Returned(n) /\ n \notin stuck => where[n] = {CategoryIgnored}

\* C11 (as claimed): for a route of the routes file that configures neither
\* a filename pattern nor a suffix filter, the filter step lets every
\* detected file through to validation: the step completes and no file is
\* given the category ignored.
C11_FilterDefaults ==
  cfg.source = "routes" /\ ~cfg.compiled /\ cfg.suffix = NoSuffix =>
    /\ pc # "panicked"
    /\ call.category # CategoryIgnored
    /\ \A n \in Names : CategoryIgnored \notin where[n]

\* C12 (as claimed): a failure at any step of one file's processing,
\* including a runtime fault raised inside the step, does not end the
\* detector loop: once a file has been emitted the loop ends only when the
\* detector is stopped.
C12_ErrorIsolation ==
  (\E n \in Names : emitted[n] > 0) /\ ~stopClosed =>
    pc \notin {"panicked", "returned"}

\* What holds of the errors the steps return: a file whose send failed or
\* whose archive move failed leaves the detector in its loop.
ReturnedErrorsContained ==
  (\E n \in Names : Returned(n) /\ (sendErr[n] # "" \/ n \in stuck)) =>
    pc \notin {"panicked", "returned"} \/ ~cfg.compiled

\* C13 (as claimed): when a route's processor cannot be constructed, the
\* failure is only logged and every other route is still started.
C13_RouteStartIsolation ==
  sup.pc = "fatal" => \A j \in RouteIds \ {sup.i} : rt[j].loop # "none"

\* What holds of a failed Start: the goroutine of that route ends and the
\* process goes on.
StartFailureLogged ==
  \A i \in RouteIds : rt[i].loop = "failed" => sup.pc # "fatal"

\* C14: at most one file of the route is between its emission and the
\* return of its callback, and while one is, the detector neither runs a
\* readiness check nor waits in its select, in every watch mode.
C14_SequentialPerRoute ==
  /\ Cardinality({n \in Names : emitted[n] > 0 /\ n \notin processedFiles}) <= 1
  /\ \A n \in Names :
       emitted[n] > 0 /\ n \notin processedFiles =>
         /\ call.file = n
         /\ cur = n
         /\ pc \in {"filter", "validate", "parse", "send", "publish",
                    "archive", "panicked"}

\* In hybrid mode a file is in its callback while an event for another file
\* waits on the channel.
C14_Witness ==
  /\ cfg.watchMode = WatchModeHybrid
  /\ call.file # 0
  /\ pc = "archive"
  /\ \E n \in Names : n # call.file /\ n \in events /\ IsFile(n)
                      /\ n \notin processedFiles

\* C15: a route that is in its readiness sleep or in the processing of a
\* file, and whose own broker answers, gets back to its select, and a route
\* with a waiting file leaves its select, whatever the other routes do, also
\* when another route is blocked for ever in a publish.
C15_CrossRouteIndependence ==
  \A i \in RouteIds :
    /\ [](rt[i].loop \in InFlight \cup {"sleep"} /\ ~rt[i].hang =>
            <>(rt[i].loop = "select" \/ rt[i].hang \/ ProcessGone))
    /\ [](rt[i].loop = "select" /\ rt[i].pending > 0 =>
            <>(rt[i].loop # "select" \/ ProcessGone))

\* One route is blocked in its publish while another archives a file.
C15_Witness ==
  \E i, j \in RouteIds :
    /\ i # j
    /\ rt[j].loop = "publish" /\ rt[j].hang /\ rt[j].sink = "open"
    /\ rt[i].loop = "archive"

C17_InFlightCompletion ==
  [][\A i \in RouteIds :
       /\ rt[i].route.outputType \in {"queue", "both"}
       /\ rt[i].loop \in {"process", "publish"}
       /\ rt[i].sink = "open"
       => rt'[i].sink = "open"]_vars

\* The archived copies of caller i's original.
Copies(d, i) == {n \in ArchNames : d.arch[n] = i}

\* C18 (as claimed): whatever the interleaving of the callers, an input that
\* Archive has moved stays in the archive directory, and so does an older
\* archived file: no archived file is overwritten or lost.
C18_CollisionSafe ==
  /\ \A i \in Callers : arc[i].pc \in {"sidecar", "done"} => Copies(disk, i) # {}
  /\ disk.old => \E n \in ArchNames : disk.arch[n] = Old

\* What holds of the code: calls that do not overlap in time keep every
\* archived file (the duplicate loop gives the later call a fresh name).
SequentialCollisionSafe ==
  ~disk.overlap => C18_CollisionSafe

\* C19 (as claimed): at the moment Archive returns nil the original path is
\* empty and the archive directory holds exactly one copy of the original.
C19_SuccessfulArchiveIsMove ==
  [][\A i \in Callers :
       arc[i].pc # "done" /\ arc'[i].pc = "done" =>
         /\ disk'.orig[i] = Gone
         /\ Cardinality(Copies(disk', i)) = 1]_vars

\* What holds of the code: after a nil return the original path is empty,
\* and a call that no other call overlapped has left exactly one copy.
MoveWhenNotOverlapped ==
  \A i \in Callers :
    arc[i].pc = "done" =>
      /\ disk.orig[i] = Gone
      /\ ~disk.overlap => Cardinality(Copies(disk, i)) = 1

\* The keys of a JSON object in the order of its text.
KeysOf(object) == [j \in DOMAIN object |-> object[j][1]]

\* The place of a key in the byte order.
Rank(key) == CHOOSE j \in DOMAIN ByteOrder : ByteOrder[j] = key

\* The keys are in byte order, each once.
InByteOrder(headers) ==
  \A j \in DOMAIN headers : \A l \in DOMAIN headers :
    j < l => Rank(headers[j]) < Rank(headers[l])

\* C20 (as claimed): every object of the JSON file and every object of the
\* data array of the published message has its keys in the order of the
\* header row.
C20_HeaderOrder ==
  /\ \A r \in DOMAIN conv.file : KeysOf(conv.file[r]) = conv.result.Headers
  /\ conv.message # NoJSON =>
       \A r \in DOMAIN conv.message.data :
         KeysOf(conv.message.data[r]) = conv.result.Headers

\* What holds of the code: the file sink keeps the header order, and the
\* queue sink keeps it for a header row that is already in byte order.
FileHeaderOrder ==
  /\ conv.pc \in {"filed", "published"} /\ conv.outputType # "queue" =>
       /\ DOMAIN conv.file = DOMAIN conv.result.Rows
       /\ \A r \in DOMAIN conv.file : KeysOf(conv.file[r]) = conv.result.Headers
  /\ conv.message # NoJSON /\ InByteOrder(conv.result.Headers) =>
       \A r \in DOMAIN conv.message.data :
         KeysOf(conv.message.data[r]) = conv.result.Headers

\* The header row and the data rows of the input file as they are on disk.
HeaderOf(c) ==
  IF c.records = << >> THEN << >>
  ELSE IF c.hasHeader THEN c.records[1]
  ELSE [j \in DOMAIN c.records[1] |-> ColName[j]]

DataOf(c) == IF c.hasHeader /\ c.records # << >> THEN Tail(c.records) ELSE c.records

\* Object i has, as its j-th member, the key h_j with the text of cell (i, j)
\* as a JSON string.
CellByCell(c) ==
  [i \in DOMAIN DataOf(c) |->
    [j \in DOMAIN DataOf(c)[i] |-> << HeaderOf(c)[j], JSONString(DataOf(c)[i][j]) >>]]

\* C21 (as claimed): the written JSON file and the data array of the
\* published message have one object per data row, in the order of the
\* rows, and object i has as its j-th member the key h_j with the text of
\* cell (i, j) as a JSON string.
C21_CellFidelity ==
  /\ conv.pc \in {"filed", "published"} /\ conv.outputType # "queue" =>
       conv.file = CellByCell(conv)
  /\ conv.message # NoJSON => conv.message.data = CellByCell(conv)

\* What holds of the code: every value is a JSON string and there is one
\* object per data row; under a header row without a repeated name the file
\* is cell by cell, and the message has the same members in byte order.
CellFidelityDistinctNames ==
  LET distinct == \A j \in DOMAIN HeaderOf(conv) : \A l \in DOMAIN HeaderOf(conv) :
                    HeaderOf(conv)[j] = HeaderOf(conv)[l] => j = l
      Members(object) == {object[j] : j \in DOMAIN object}
  IN /\ conv.pc \in {"filed", "published"} /\ conv.outputType # "queue" =>
          /\ DOMAIN conv.file = DOMAIN DataOf(conv)
          /\ \A i \in DOMAIN conv.file : \A j \in DOMAIN conv.file[i] :
               conv.file[i][j][2].type = "string"
          /\ distinct => conv.file = CellByCell(conv)
     /\ conv.message # NoJSON =>
          /\ DOMAIN conv.message.data = DOMAIN DataOf(conv)
          /\ \A i \in DOMAIN conv.message.data : \A j \in DOMAIN conv.message.data[i] :
               conv.message.data[i][j][2].type = "string"
          /\ distinct =>
               \A i \in DOMAIN conv.message.data :
                 Members(conv.message.data[i]) = Members(CellByCell(conv)[i])

\* The records all have the arity of the first one and there is a data row.
WellFormed(c) ==
  /\ c.records # << >>
  /\ \A r \in DOMAIN c.records : Len(c.records[r]) = Len(c.records[1])
  /\ DataOf(c) # << >>

C23_EnvelopeComplete ==
  conv.message # NoJSON /\ conv.message.shape = "envelope" =>
    /\ conv.message.meta.ingestionContract # ""
    /\ conv.message.meta.source.type # ""
    /\ conv.message.meta.source.name # ""
    /\ conv.message.meta.source.path # ""
    /\ conv.message.meta.source.route # ""
    /\ conv.message.meta.source.queue # ""
    /\ conv.message.meta.source.broker # << >>
    /\ conv.message.meta.ingestion.service # ""
    /\ conv.message.meta.ingestion.version # ""
    /\ conv.message.meta.ingestion.timestamp # ""

\* What holds of the code: the fields the handler fills by itself are never
\* empty, and a handler that was given its envelope context fills them all.
EnvelopeCompleteWithContext ==
  conv.message # NoJSON /\ conv.message.shape = "envelope" =>
    /\ conv.message.meta.source.type # ""
    /\ conv.message.meta.source.name # ""
    /\ conv.message.meta.source.queue # ""
    /\ conv.message.meta.source.broker # << >>
    /\ conv.message.meta.ingestion.service # ""
    /\ conv.message.meta.ingestion.version # ""
    /\ conv.message.meta.ingestion.timestamp # ""
    /\ conv.mode = "routes" => C23_EnvelopeComplete

\* Every text a message body holds.
Texts(message) ==
  LET data == UNION {UNION {{message.data[i][j][1], message.data[i][j][2].text} :
                              j \in DOMAIN message.data[i]} :
                       i \in DOMAIN message.data}
  IN IF message.shape = "legacy"
     THEN {message.identifier} \cup data
     ELSE {message.meta.ingestionContract,
           message.meta.source.type, message.meta.source.name,
           message.meta.source.path, message.meta.source.queue,
           message.meta.source.route,
           message.meta.ingestion.service, message.meta.ingestion.version,
           message.meta.ingestion.timestamp}
          \cup {message.meta.source.broker[k] : k \in DOMAIN message.meta.source.broker}
          \cup data

\* The password is in no published and in no logged message body.
PasswordUnseen ==
  conv.password # "" =>
    /\ conv.message # NoJSON => conv.password \notin Texts(conv.message)
    /\ \A k \in DOMAIN conv.log : conv.password \notin Texts(conv.log[k])

\* C24 (as claimed): the password is in no published or logged message body,
\* and the handler that differs in nothing but the password has the same
\* broker URI.
C24_CredentialRedaction ==
  /\ PasswordUnseen
  /\ conv.handler # NoHandler => conv.handler.brokerURI = conv.twinBroker

\* C24 (amended): the password is in no published or logged message body,
\* and the handler that differs in nothing but the value of a password that
\* is set has the same broker URI.
C24_RedactionOfSetPasswords ==
  /\ PasswordUnseen
  /\ conv.handler # NoHandler /\ conv.password # "" /\ conv.twin # "" =>
       /\ conv.handler.brokerURI = conv.twinBroker
       /\ conv.message # NoJSON /\ conv.message.shape = "envelope" =>
            conv.message.meta.source.broker = conv.twinBroker

\* A message with the envelope has been published and logged by a handler
\* with a user name and a password, and its twin has another password.
C24_Witness ==
  /\ conv.message # NoJSON
  /\ conv.message.shape = "envelope"
  /\ conv.log # << >>
  /\ conv.username # "" /\ conv.password # "" /\ conv.twin # ""
  /\ conv.twin # conv.password

\* ------------------------------------------------ C25..C30: the detector

\* C25 (as claimed): a file is handed to the pipeline only after its last
\* write: while its callback runs, from the emission to the archive move, no
\* write of the producer changes the file.
C25_NoReadWhileWritten ==
  [][\A n \in Names :
       call.file = n /\ IsFile(n) /\ IsFile(n)' => fs'[n].size = fs[n].size]_vars

\* C26 (as claimed): when the OS watch of an event or hybrid route cannot be
\* established at start, because creating the watcher fails or because
\* adding the watch on the input folder fails, the route runs with a
\* polling detector.
C26_EventToPollFallback ==
  boot.watch \in {"create failed", "add failed"} =>
    /\ boot.monitor = WatchModePoll
    /\ boot.pc \in {"start", "running"}

\* What holds of the code: the fallback is there when creating the watcher
\* fails, and the polling detector then detects the files that arrive.
FallbackWhenNewWatcherFails ==
  boot.watch = "create failed" =>
    /\ boot.monitor = WatchModePoll
    /\ boot.pc \in {"start", "running"}

DetectsAfterFallback ==
  (boot.watch = "create failed" /\ boot.pending) ~> boot.detected

\* The configured output type, and whether a queue name is configured.
EffectiveOutputType ==
  IF boot.mode = "legacy" THEN getEnv(boot.outputType, "file") ELSE boot.outputType

\* A route names its output.destination (the output folder of a file sink).
DestinationGiven == boot.mode = "routes" => boot.queueName # ""

\* processor.New is past CreateHandler, or the process has ended before.
PastCreateHandler == boot.pc \notin {"load", "handler"}

\* C27 (as claimed): the output types file, queue and both are accepted, and
\* no other: with both, valid queue settings and a broker that answers the
\* processor is built with the dual sink, with file or queue (and valid
\* queue settings) with that sink, and with any other value no sink is built
\* and the start ends with an error.
C27_OutputModeAcceptance ==
  /\ PastCreateHandler /\ EffectiveOutputType = "both"
       /\ boot.queueName # "" /\ boot.broker => boot.handler = "both"
  /\ PastCreateHandler /\ EffectiveOutputType = "queue"
       /\ boot.queueName # "" /\ boot.broker => boot.handler = "queue"
  /\ PastCreateHandler /\ EffectiveOutputType = "file" /\ DestinationGiven =>
       boot.handler = "file"
  /\ PastCreateHandler /\ EffectiveOutputType \notin {"file", "queue", "both"} =>
       boot.handler = "none" /\ boot.pc = "fatal"

\* What holds of the code: file and queue are accepted, every other value,
\* both included, ends the start with an error.
FileAndQueueAccepted ==
  /\ PastCreateHandler /\ EffectiveOutputType = "queue"
       /\ boot.queueName # "" /\ boot.broker => boot.handler = "queue"
  /\ PastCreateHandler /\ EffectiveOutputType = "file" /\ DestinationGiven =>
       boot.handler = "file"
  /\ PastCreateHandler /\ EffectiveOutputType \notin {"file", "queue"} =>
       boot.handler = "none" /\ boot.pc = "fatal"

\* What the second observation of the readiness check finds to be ready.
SecondObservationReady ==
  IsFile(cur) /\ fs[cur].size = size1

\* C28 (as claimed): in every mode a callback is issued only from the
\* readiness check, when the second stat succeeds, reports the size of the
\* first and finds the path still a regular file; when the check fails no
\* callback is made and the basename is not added to the registry.
C28_ReadinessCheck ==
  [][/\ \A n \in Names :
          emitted'[n] # emitted[n] =>
            pc = "sleep" /\ cur = n /\ SecondObservationReady
     /\ pc = "sleep" /\ pc' # "sleep" /\ ~SecondObservationReady =>
          emitted' = emitted /\ processedFiles' = processedFiles]_vars

\* What holds of the code: the same with a second stat that succeeds and
\* reports the size of the first, whatever the path then is.
ReadinessBySizeOnly ==
  [][/\ \A n \in Names :
          emitted'[n] # emitted[n] =>
            /\ pc = "sleep" /\ cur = n
            /\ fs[n].kind # "absent" /\ fs[n].size = size1
     /\ pc = "sleep" /\ pc' # "sleep"
          /\ ~(fs[cur].kind # "absent" /\ fs[cur].size = size1) =>
          emitted' = emitted /\ processedFiles' = processedFiles]_vars

\* The detector is Running: the initial scan is done and the watch, if any,
\* is in place; Start is in its loop, in a readiness check or in a callback.
Running ==
  pc \in {"select", "sleep", "filter", "validate", "parse", "send", "publish",
          "archive"}

\* Start has returned.
StartReturned == pc \in {"stopped", "returned"}

\* C29 (as claimed): in every mode, when Stop was called and the detector is
\* Running, Start returns in the end; when it has returned after a stop the
\* watcher is closed; and once Start has returned no callback is started and
\* no tick starts a scan cycle.
C29_DetectorStop ==
  /\ [](stopClosed /\ Running => <>(pc = "stopped"))
  /\ [](pc = "stopped" => ~watching /\ events = {})
  /\ [][StartReturned =>
          pc' = pc /\ emitted' = emitted /\ call' = call /\ cycle' = cycle]_vars

\* What holds of the code: the same unless the process ends with the panic
\* of the filter step before Start can return.
DetectorStopUnlessPanic ==
  /\ [](stopClosed /\ Running => <>(pc = "stopped" \/ pc = "panicked"))
  /\ [](pc = "stopped" => ~watching /\ events = {})
  /\ [][StartReturned =>
          pc' = pc /\ emitted' = emitted /\ call' = call /\ cycle' = cycle]_vars

OldName == << IF disk.addTimestamp THEN 1 ELSE 0, 0 >>

\* Caller i's file has been stored under its archive name.
Stored(i) == arc[i].pc \in {"sidecar", "done"}

\* C31 (as claimed): a file stored under a name with counter n >= 1 has the
\* smallest n for which the name was free, that is, the names with the same
\* timestamp and the counters 1 .. n-1 are taken; and what was archived
\* before stays under its name.
C31_CollisionNaming ==
  /\ \A i \in Callers :
       Stored(i) =>
         \A k \in 1 .. NumCallers :
           k < arc[i].name[2] => disk.arch[<< arc[i].name[1], k >>] # Gone
  /\ disk.old => disk.arch[OldName] = Old
  /\ \A i \in Callers : arc[i].pc = "done" => disk.arch[arc[i].name] = i

\* What holds of the code: the same of calls that do not overlap in time
\* and during which the second of the timestamp does not change.
NamingWithinOneSecond ==
  ~disk.overlap /\ disk.now = 0 => C31_CollisionNaming

NamingWhenNotOverlapped ==
  ~disk.overlap => C31_CollisionNaming

\* C32 (as claimed): a file whose archive move failed is left in the input
\* directory and, while the detector runs, is detected again and passed to
\* the callback a second time by a later cycle of the same run.
C32_ArchiveRetry ==
  \A n \in Names :
    [](n \in stuck /\ Returned(n) =>
         /\ IsFile(n)
         /\ <>(emitted[n] >= 2 \/ ~Alive \/ stopClosed))

\* What holds of the code: the file stays in the input directory, its
\* basename is registered although the callback failed, and it is not
\* passed to the callback again.
FailedMoveNotRetried ==
  \A n \in Names :
    n \in stuck /\ Returned(n) =>
      IsFile(n) /\ n \in processedFiles /\ emitted[n] = 1

\* C33 (as claimed): when Archive has returned nil, an input archived with
\* a failure reason has the sidecar <archive name>.error next to it unless
\* writing the sidecar failed, which only warns; an input archived without
\* a reason (processed, ignored) has no sidecar next to it.
C33_FailureSidecar ==
  \A i \in Callers :
    arc[i].pc = "done" =>
      /\ arc[i].errorMsg # "" /\ ~arc[i].warned => arc[i].name \in disk.side
      /\ arc[i].errorMsg = "" => arc[i].name \notin disk.side

\* What holds of the code: the same of calls that do not overlap in time.
SidecarWhenNotOverlapped == ~disk.overlap => C33_FailureSidecar

\* A failed sidecar write leaves the call successful and the file moved.
SidecarFailureOnlyWarns ==
  \A i \in Callers :
    arc[i].warned =>
      arc[i].pc = "done" /\ disk.orig[i] = Gone /\
      (~disk.overlap => disk.arch[arc[i].name] = i)

\* C34 (as claimed): every envelope published for a file names that file:
\* meta.source.name is its basename and meta.source.path its full path.
C34_EnvelopeSourceIdentity ==
  conv.message # NoJSON /\ conv.message.shape = "envelope" =>
    /\ conv.message.meta.source.name = conv.name
    /\ conv.message.meta.source.path = Join(WatchFolder, conv.name)

\* What holds of the code: the name is the basename of the file, in the
\* envelope and in the legacy shape; the path is what the handler was given
\* when the route was set up, or empty.
EnvelopeSourceName ==
  conv.message # NoJSON =>
    IF conv.message.shape = "envelope"
    THEN /\ conv.message.meta.source.name = conv.name
         /\ conv.message.meta.source.path = conv.handler.sourceFilePath
    ELSE conv.message.identifier = conv.name

\* C35: a queue publisher of a queue type other than rabbitmq is not
\* constructed: NewQueueHandler returns an error for it and opens no
\* connection, and the start of a service configured with such a type ends
\* without a handler and without a processor.
C35_UnsupportedBrokerTypes ==
  /\ boot.queueType # "rabbitmq" =>
       \A dial \in BOOLEAN :
         QueueHandlerError(boot.queueType, dial) # "" /\ ~Dials(boot.queueType)
  /\ boot.config.OutputType \in {"queue", "both"}
       /\ boot.config.QueueType # "rabbitmq" =>
         /\ boot.handler = "none"
         /\ ~boot.dialed
         /\ boot.pc \in {"handler", "fatal"}

\* The start of a service configured for a Kafka queue has ended at the
\* construction of the publisher, with a broker that would have answered.
C35_Witness ==
  /\ boot.pc = "fatal"
  /\ boot.config.OutputType = "queue"
  /\ boot.config.QueueType = "kafka"
  /\ boot.broker
  /\ boot.err = "not yet implemented"

C37_ReusedBasename ==
  [][/\ processedFiles \subseteq processedFiles'
     /\ \A n \in processedFiles :
          /\ emitted'[n] = emitted[n]
          /\ IsFile(n) => IsFile(n)']_vars

\* A second file arrived under the basename of a file that was archived,
\* and a poll cycle has passed over it.
C37_Witness ==
  \E n \in Names :
    /\ Returned(n)
    /\ where[n] # {}
    /\ n \notin stuck
    /\ n \notin initial.files
    /\ IsFile(n)
    /\ pc = "sleep" /\ via = "poll" /\ n < cur

C39_NoLossMove ==
  ~disk.overlap =>
    \A i \in Callers :
      \/ disk.orig[i] = i
      \/ arc[i].pc # "idle" /\ disk.arch[arc[i].name] = i

\* A call ended with an error after the rename failed and the copy was cut
\* short: the archive path holds a partial copy, the original is in place.
C39_Witness ==
  \E i \in Callers :
    /\ ~disk.overlap
    /\ arc[i].pc = "error"
    /\ disk.arch[arc[i].name] = Partial
    /\ disk.orig[i] = i

\* The candidate of the event path is ready: its second stat finds the size
\* of the first.
EventCandidateReady ==
  pc = "sleep" /\ via = "event" /\ fs[cur].kind # "absent" /\ fs[cur].size = size1

\* C40: max-files-per-cycle bears on the poll path only: when the readiness
\* check of the event path ends with a ready candidate, the candidate is
\* passed to the callback whatever the limit and the count of the last cycle
\* are, its emission is not counted, and files are left over to a later
\* cycle only by a step of the poll path.
C40_RateLimitScope ==
  [][/\ EventCandidateReady /\ pc' # pc =>
          /\ pc' = "filter"
          /\ emitted'[cur] = emitted[cur] + 1
          /\ processedCount' = processedCount
          /\ cycle' = cycle
     /\ cycle'.left # cycle.left /\ cycle'.left # {} =>
          via = "poll" \/ pc = "select"]_vars

\* Hybrid mode with a limit of k files: the last backup cycle emitted k
\* files, and before the next tick a file is emitted on an event.
C40_Witness ==
  /\ cfg.watchMode = WatchModeHybrid
  /\ cfg.maxFilesPerPoll > 0
  /\ processedCount >= cfg.maxFilesPerPoll
  /\ ~cycle.open
  /\ pc = "filter" /\ via = "event"
  /\ \E n \in Names : n # cur /\ emitted[n] > 0 /\ Returned(n)

====
